---- MODULE Spec2Model ----
(***************************************************************************)
(* Model of the Companies House bulk loader                                *)
(* (workspace/generated/data_mapper.py) and of the graph-store client it   *)
(* drives (src/core/neo4j/query.py, src/core/neo4j/version.py).            *)
(*                                                                         *)
(* Text is modelled as a sequence of one-character strings, so that        *)
(* trimming, case folding and substring search are computed, not assumed.  *)
(* Python's None and Cypher's null are the value NONE.                     *)
(***************************************************************************)
EXTENDS Integers, Sequences, FiniteSets, TLC

VARIABLES
    file,        \* the data file: a sequence of indices into RowPool
    fileExists,  \* DATA_FILE.exists()
    pc,          \* position of the running specification
    store,       \* the graph store: node lists and relationship lists
    query,       \* the store connection held by main
    log,         \* what has been logged
    issued,      \* the statements issued so far, in order
    outcome,     \* how main ended
    ldr,         \* the locals of the loader now running
    bg,          \* the locals of batch_generator
    call,        \* the locals of a helper function called on its own
    snap         \* what a caller that runs a loader, or main, twice remembers

vars == <<file, fileExists, pc, store, query, log, issued, outcome, ldr, bg, call,
          snap>>

----------------------------------------------------------------------------
(* Bounds of the model *)

\* longest data file, in rows
MaxRows == 3
\* longest sequence handed to batch_generator on its own
MaxSeqLen == 5
\* largest batch size handed to batch_generator on its own
MaxBatch == 3
\* rows per batch in the loaders; stands for the 2000 of data_mapper.py:58
BATCH_SIZE == 2
\* most schema statements the store fails in one run
MaxFaults == 2
\* longest text handed to parse_sic_code on its own
MaxTextLen == 5
\* largest day and month number written in a text handed to parse_date
MaxDay == 32
MaxMonth == 13
\* most records the version query returns to get_neo4j_info
MaxRecords == 2
\* batches between two progress lines; stands for the 25 of 50000 / 2000
LogEvery == 2
\* longest data file handed to a loader whose progress lines are followed
MaxProgressRows == 8

----------------------------------------------------------------------------
(* Text *)

NONE == <<"<None>">>

Whitespace == {" ", "\t", "\n"}

Digits == {"0", "1", "2", "3", "4", "5", "6", "7", "8", "9"}

RECURSIVE LStrip(_)
\* str.lstrip(): drop leading whitespace
LStrip(s) ==
    IF s # <<>> /\ Head(s) \in Whitespace THEN LStrip(Tail(s)) ELSE s

RECURSIVE RStrip(_)
\* str.rstrip(): drop trailing whitespace
RStrip(s) ==
    IF s # <<>> /\ s[Len(s)] \in Whitespace
    THEN RStrip(SubSeq(s, 1, Len(s) - 1)) ELSE s

\* str.strip()
Strip(s) == RStrip(LStrip(s))

\* Python truthiness of an optional string: None and "" are false
Truthy(v) == v # NONE /\ v # <<>>

\* clean_string(value)
clean_string(value) ==
    IF ~Truthy(value) THEN NONE
    ELSE LET cleaned == Strip(value) IN
         IF cleaned # <<>> THEN cleaned ELSE NONE

----------------------------------------------------------------------------
(* batch_generator *)

\* the generator's locals before the first item
BgStart(iterable, batch_size) ==
    [input |-> iterable, size |-> batch_size, pos |-> 0,
     batch |-> <<>>, out |-> <<>>, done |-> FALSE]

\* one pass of the for loop with the yield test off by one (> for >=)
BgStepLate(g) ==
    LET item == g.input[g.pos + 1]
        b == Append(g.batch, item)
    IN  IF Len(b) > g.size
        THEN [g EXCEPT !.pos = @ + 1, !.batch = <<>>, !.out = Append(@, b)]
        ELSE [g EXCEPT !.pos = @ + 1, !.batch = b]

\* one pass of the for loop: append the item, yield a full batch
BgStep(g) ==
    LET item == g.input[g.pos + 1]
        b == Append(g.batch, item)
    IN  IF Len(b) >= g.size
        THEN [g EXCEPT !.pos = @ + 1, !.batch = <<>>, !.out = Append(@, b)]
        ELSE [g EXCEPT !.pos = @ + 1, !.batch = b]

\* after the loop: yield what is left, if anything
BgFinish(g) ==
    IF g.batch # <<>>
    THEN [g EXCEPT !.batch = <<>>, !.out = Append(@, g.batch), !.done = TRUE]
    ELSE [g EXCEPT !.done = TRUE]

RECURSIVE BgRun(_)
BgRun(g) ==
    IF g.done THEN g
    ELSE IF g.pos < Len(g.input) THEN BgRun(BgStep(g))
    ELSE BgRun(BgFinish(g))

\* list(batch_generator(iterable, batch_size))
batch_generator(iterable, batch_size) ==
    BgRun(BgStart(iterable, batch_size)).out

----------------------------------------------------------------------------
(* Field normalizers *)

RECURSIVE AllIn(_, _)
\* every character of s is in the set cs (true of the empty text)
AllIn(s, cs) == s = <<>> \/ (Head(s) \in cs /\ AllIn(Tail(s), cs))

DigitVal(c) ==
    CASE c = "0" -> 0 [] c = "1" -> 1 [] c = "2" -> 2 [] c = "3" -> 3
      [] c = "4" -> 4 [] c = "5" -> 5 [] c = "6" -> 6 [] c = "7" -> 7
      [] c = "8" -> 8 [] c = "9" -> 9

DigitChar(n) ==
    CASE n = 0 -> "0" [] n = 1 -> "1" [] n = 2 -> "2" [] n = 3 -> "3"
      [] n = 4 -> "4" [] n = 5 -> "5" [] n = 6 -> "6" [] n = 7 -> "7"
      [] n = 8 -> "8" [] n = 9 -> "9"

RECURSIVE ToNat(_)
\* int(s) for a text of decimal digits
ToNat(s) ==
    IF s = <<>> THEN 0 ELSE 10 * ToNat(SubSeq(s, 1, Len(s) - 1)) + DigitVal(s[Len(s)])

\* position of the first c in s, 0 when there is none
IndexOf(s, c) ==
    IF \E i \in 1..Len(s) : s[i] = c
    THEN CHOOSE i \in 1..Len(s) : s[i] = c /\ \A j \in 1..(i - 1) : s[j] # c
    ELSE 0

\* str.isdigit(): non-empty and all digits
IsDigitStr(s) == s # <<>> /\ AllIn(s, Digits)

IsLeap(y) == (y % 4 = 0 /\ y % 100 # 0) \/ y % 400 = 0

DaysInMonth(y, m) ==
    IF m = 2 THEN (IF IsLeap(y) THEN 29 ELSE 28)
    ELSE IF m \in {4, 6, 9, 11} THEN 30 ELSE 31

\* n as exactly w decimal digits (strftime's zero padding)
Pad(n, w) ==
    [i \in 1..w |->
        LET p == w - i
            RECURSIVE Pow10(_)
            Pow10(k) == IF k = 0 THEN 1 ELSE 10 * Pow10(k - 1)
        IN  DigitChar((n \div Pow10(p)) % 10)]

RECURSIVE NatText(_)
\* n in decimal digits, as many as it has
NatText(n) ==
    IF n < 10 THEN <<DigitChar(n)>> ELSE Append(NatText(n \div 10), DigitChar(n % 10))

\* strftime("%Y"): the platform's C library writes the year: in four digits
\* where it pads with zeros, in as many digits as the year has where it does
\* not (glibc)
YearText(y, padded) == IF padded THEN Pad(y, 4) ELSE NatText(y)

\* parse_date(date_str) where strftime pads the year or does not:
\* strptime "%d/%m/%Y" (one or two digits of day and of month, four of year,
\* a date of the calendar from year 1 on), then strftime "%Y-%m-%d"; None
\* when blank or on ValueError
parse_date_on(date_str, padded) ==
    IF ~Truthy(date_str) \/ Strip(date_str) = <<>> THEN NONE
    ELSE
      LET s == Strip(date_str)
          i1 == IndexOf(s, "/")
          d == SubSeq(s, 1, i1 - 1)
          r1 == SubSeq(s, i1 + 1, Len(s))
          i2 == IndexOf(r1, "/")
          m == SubSeq(r1, 1, i2 - 1)
          y == SubSeq(r1, i2 + 1, Len(r1))
      IN  IF i1 = 0 \/ i2 = 0 THEN NONE
          ELSE IF ~(IsDigitStr(d) /\ Len(d) <= 2 /\ IsDigitStr(m) /\ Len(m) <= 2
                    /\ IsDigitStr(y) /\ Len(y) = 4) THEN NONE
          ELSE IF ~(ToNat(y) >= 1 /\ ToNat(m) \in 1..12
                    /\ ToNat(d) \in 1..DaysInMonth(ToNat(y), ToNat(m))) THEN NONE
          ELSE YearText(ToNat(y), padded) \o <<"-">> \o Pad(ToNat(m), 2)
               \o <<"-">> \o Pad(ToNat(d), 2)

\* parse_date(date_str) in the loaders: the years of the model's rows have
\* four digits, which every platform writes alike
parse_date(date_str) == parse_date_on(date_str, TRUE)

\* str.lower() on the letters the model's texts use
LowerChar(c) ==
    CASE c = "A" -> "a" [] c = "E" -> "e" [] c = "I" -> "i" [] c = "L" -> "l"
      [] c = "N" -> "n" [] c = "O" -> "o" [] c = "R" -> "r" [] c = "S" -> "s"
      [] c = "T" -> "t" [] c = "X" -> "x" [] c = "Y" -> "y" [] c = "D" -> "d"
      [] c = "U" -> "u" [] c = "P" -> "p" [] c = "F" -> "f" [] c = "G" -> "g"
      [] c = "B" -> "b" [] c = "K" -> "k"
      [] OTHER -> c

Lower(s) == [i \in 1..Len(s) |-> LowerChar(s[i])]

\* needle in hay (Python's "in" on strings)
Contains(hay, needle) ==
    \E i \in 0..(Len(hay) - Len(needle)) :
        SubSeq(hay, i + 1, i + Len(needle)) = needle

\* the longest prefix of s made of characters of cs
RECURSIVE SpanLen(_, _)
SpanLen(s, cs) ==
    IF s # <<>> /\ Head(s) \in cs THEN 1 + SpanLen(Tail(s), cs) ELSE 0

\* position of the last c in s, 0 when there is none
LastIndexOf(s, c) ==
    IF \E i \in 1..Len(s) : s[i] = c
    THEN CHOOSE i \in 1..Len(s) : s[i] = c /\ \A j \in (i + 1)..Len(s) : s[j] # c
    ELSE 0

\* parse_sic_code(sic_text): <<code, description>>
parse_sic_code(sic_text) ==
    IF ~Truthy(sic_text) \/ Strip(sic_text) = <<>> THEN <<NONE, NONE>>
    ELSE
      LET s == Strip(sic_text)
          \* re.match(r"^(\d+)\s*-\s*(.+)$"): digits, blanks, a hyphen, blanks,
          \* then at least one character, none of them a line break
          nd == SpanLen(s, Digits)
          a1 == SubSeq(s, nd + 1, Len(s))
          a2 == SubSeq(a1, SpanLen(a1, Whitespace) + 1, Len(a1))
          a3 == IF a2 # <<>> /\ Head(a2) = "-" THEN Tail(a2) ELSE <<>>
          nl == LastIndexOf(a3, "\n")
          matched == nd >= 1 /\ a2 # <<>> /\ Head(a2) = "-" /\ a3 # <<>>
                     /\ AllIn(SubSeq(a3, 1, nl), Whitespace)
      IN  IF Lower(s) \in {<<"n","o","n","e"," ","s","u","p","p","l","i","e","d">>,
                           <<"n","o","n","e">>, <<>>}
          THEN <<NONE, NONE>>
          ELSE IF matched THEN <<SubSeq(s, 1, nd), Strip(SubSeq(a3, nl + 1, Len(a3)))>>
          ELSE IF IsDigitStr(s) THEN <<s, NONE>>
          ELSE <<NONE, NONE>>

\* COUNTRY_CODES, for the country names the model's rows use
COUNTRY_CODES(lookup) ==
    CASE lookup = <<"u","k">> -> <<"G","B">>
      [] lookup = <<"u","s","a">> -> <<"U","S">>
      [] OTHER -> NONE

\* str.upper() on the letters the model's texts use
UpperChar(c) ==
    CASE c = "a" -> "A" [] c = "r" -> "R" [] c = "f" -> "F" [] c = "u" -> "U"
      [] c = "k" -> "K" [] c = "s" -> "S" [] c = "g" -> "G" [] c = "b" -> "B"
      [] OTHER -> c

Upper(s) == [i \in 1..Len(s) |-> UpperChar(s[i])]

\* get_country_code(country_name)
get_country_code(country_name) ==
    IF ~Truthy(country_name) THEN NONE
    ELSE LET lookup == Lower(Strip(country_name))
             up == Upper(country_name)
         IN  IF COUNTRY_CODES(lookup) # NONE THEN COUNTRY_CODES(lookup)
             ELSE SubSeq(up, 1, IF Len(up) < 2 THEN Len(up) ELSE 2)

----------------------------------------------------------------------------
(* The data file *)

\* the SICCode.SicText_1..4 columns
NumSicSlots == 4
\* the PreviousName_1..10 column pairs
NumPrevSlots == 10

NoSic == [k \in 1..NumSicSlots |-> <<>>]
NoPrev == [k \in 1..NumPrevSlots |-> [name |-> <<>>, date |-> <<>>]]

\* a row whose every column is the empty text
BlankRow ==
    [CompanyNumber |-> <<>>, CompanyName |-> <<>>, CountryOfOrigin |-> <<>>,
     IncorporationDate |-> <<>>, NumMortCharges |-> <<>>,
     AddressLine1 |-> <<>>, AddressLine2 |-> <<>>, PostTown |-> <<>>,
     PostCode |-> <<>>, AddrCountry |-> <<>>,
     SicText |-> NoSic, PrevName |-> NoPrev]

\* a record shorter than the header: csv.DictReader fills every column it
\* lacks with None
ShortRow ==
    [CompanyNumber |-> NONE, CompanyName |-> NONE, CountryOfOrigin |-> NONE,
     IncorporationDate |-> NONE, NumMortCharges |-> NONE,
     AddressLine1 |-> NONE, AddressLine2 |-> NONE, PostTown |-> NONE,
     PostCode |-> NONE, AddrCountry |-> NONE,
     SicText |-> [k \in 1..NumSicSlots |-> NONE],
     PrevName |-> [k \in 1..NumPrevSlots |-> [name |-> NONE, date |-> NONE]]]

\* ten names, one for each previous-name slot of a row
SlotNames == <<"a", "b", "c", "d", "e", "f", "g", "h", "i", "j">>

\* the rows a data file of the model is made of
RowPool == <<
    \* 1: company A, complete address in "Fr", one SIC code, one previous name
    [BlankRow EXCEPT !.CompanyNumber = <<"A">>, !.CompanyName = <<"x">>,
        !.CountryOfOrigin = <<"F","r">>,
        !.IncorporationDate = <<"3","1","/","1","2","/","2","0","2","0">>,
        !.NumMortCharges = <<"3">>,
        !.AddressLine1 = <<"1">>, !.AddressLine2 = <<"f">>, !.PostTown = <<"T">>,
        !.PostCode = <<"P">>, !.AddrCountry = <<"F","r">>,
        !.SicText = [NoSic EXCEPT ![1] = <<"1","2"," ","-"," ","a","b">>],
        !.PrevName = [NoPrev EXCEPT ![1] =
            [name |-> <<"o">>, date |-> <<"0","1","/","0","2","/","2","0","0","0">>]]],
    \* 2: company A again (key and address padded), blanks elsewhere
    [BlankRow EXCEPT !.CompanyNumber = <<" ","A">>, !.CompanyName = <<"y">>,
        !.AddressLine1 = <<"1"," ">>, !.PostTown = <<"T">>, !.PostCode = <<"P">>,
        !.SicText = [NoSic EXCEPT ![1] = <<"1","2">>, ![3] = <<"7","-","c">>]],
    \* 3: no company number (whitespace only), complete address in "uk"
    [BlankRow EXCEPT !.CompanyNumber = <<" ">>, !.CompanyName = <<"z">>,
        !.CountryOfOrigin = <<"u","k">>,
        !.AddressLine1 = <<"2">>, !.PostTown = <<"T">>, !.PostCode = <<"Q">>,
        !.AddrCountry = <<"A","r">>,
        !.SicText = [NoSic EXCEPT ![2] = <<"N","o","n","e">>, ![4] = <<"9">>]],
    \* 4: company B, address without a post code, one SIC code in two slots,
    \*    a previous name in slot 2 with an impossible date
    [BlankRow EXCEPT !.CompanyNumber = <<"B">>, !.CompanyName = <<" ">>,
        !.CountryOfOrigin = <<"F","r"," ">>,
        !.IncorporationDate = <<"3","0","/","0","2","/","2","0","2","0">>,
        !.NumMortCharges = <<"x">>,
        !.AddressLine1 = <<"1">>, !.PostTown = <<"T">>, !.PostCode = <<" ">>,
        !.AddrCountry = <<"u","k">>,
        !.SicText = [NoSic EXCEPT ![1] = <<"7">>, ![2] = <<"7"," ","-","d">>],
        !.PrevName = [NoPrev EXCEPT ![2] =
            [name |-> <<"p">>, date |-> <<"1","3","/","1","3","/","2","0","2","0">>]]],
    \* 5: empty company number
    [BlankRow EXCEPT !.CompanyName = <<"w">>,
        !.AddressLine1 = <<"1">>, !.PostTown = <<"T">>, !.PostCode = <<"P">>],
    \* 6: a short record: the company number and all later columns missing
    ShortRow,
    \* 7: company A with a previous name in every one of the ten slots
    [BlankRow EXCEPT !.CompanyNumber = <<"A">>, !.CompanyName = <<"x">>,
        !.PrevName = [k \in 1..NumPrevSlots |->
            [name |-> <<SlotNames[k]>>,
             date |-> <<"0","1","/","0","2","/","2","0","0","0">>]]],
    \* 8: company A once more, with another previous name in slot 1
    [BlankRow EXCEPT !.CompanyNumber = <<"A">>, !.CompanyName = <<"x">>,
        !.PrevName = [NoPrev EXCEPT ![1] =
            [name |-> <<"r">>, date |-> <<"0","3","/","0","4","/","2","0","0","1">>]]]
>>

\* the rows of the files of a whole run of main
MainRows == {1, 2, 3, 4}
\* the rows of the files a single loader is run on
LoaderRows == {1, 2, 3, 4, 5, 6}

\* every file of at most n rows drawn from the rows rs
Files(rs, n) == UNION {[1..k -> rs] : k \in 0..n}

\* stream_csv(DATA_FILE): the rows of the file, in order
stream_csv(f) == [i \in 1..Len(f) |-> RowPool[f[i]]]

\* count_rows(DATA_FILE)
count_rows(f) == Len(f)

----------------------------------------------------------------------------
(* The graph store and the Cypher statements of the loaders.              *)
(* Nodes of a label are a list, a relationship names its end nodes by     *)
(* their places in those lists; nothing is ever deleted.  A statement      *)
(* yields [ok, store]: a statement that fails leaves the store as it was   *)
(* (session.run is one auto-commit transaction).                           *)

EmptyStore ==
    [Company |-> <<>>, Address |-> <<>>, Country |-> <<>>, SICCode |-> <<>>,
     PreviousName |-> <<>>, HAS_ADDRESS |-> <<>>, LOCATED_IN |-> <<>>,
     CLASSIFIED_AS |-> <<>>, PREVIOUSLY_NAMED |-> <<>>]

Ok(st) == [ok |-> TRUE, store |-> st]
Failed(st) == [ok |-> FALSE, store |-> st]

\* Cypher date(text) of an ISO year-month-day text
CypherDate(t) ==
    <<"date", ToNat(SubSeq(t, 1, 4)), ToNat(SubSeq(t, 6, 7)), ToNat(SubSeq(t, 9, 10))>>

\* CASE WHEN v IS NOT NULL THEN date(v) ELSE NULL END
DateOrNull(v) == IF v # NONE THEN CypherDate(v) ELSE NONE

\* Cypher toInteger(text): null for a text that is no number
toInteger(t) ==
    IF t = NONE THEN NONE
    ELSE IF IsDigitStr(Strip(t)) THEN <<"int", ToNat(Strip(t))>>
    ELSE NONE

\* the places in a node list whose node satisfies a key test
Places(nodes, Test(_)) == {i \in 1..Len(nodes) : Test(nodes[i])}

\* a node list with Set applied to the nodes at the given places
SetAt(nodes, places, Set(_)) ==
    [i \in 1..Len(nodes) |-> IF i \in places THEN Set(nodes[i]) ELSE nodes[i]]

RECURSIVE AppendNew(_, _)
\* a relationship list with each of the given relationships added once,
\* in the order of their end nodes
AppendNew(rels, new) ==
    IF new = {} THEN rels
    ELSE LET r == CHOOSE x \in new :
                     \A y \in new : <<x.from, x.to>> = <<y.from, y.to>>
                         \/ x.from < y.from \/ (x.from = y.from /\ x.to < y.to)
         IN  AppendNew(Append(rels, r), new \ {r})

\* MERGE (a)-[r]->(b) for every pair of matched end nodes: a relationship
\* with these properties is created between a pair that has none
MergeRel(rels, froms, tos, props) ==
    LET want == {[from |-> a, to |-> b, props |-> props] : a \in froms, b \in tos}
        have == {rels[i] : i \in 1..Len(rels)}
    IN  AppendNew(rels, want \ have)

\* CREATE in place of MERGE: a relationship is added whether or not one exists
CreateRel(rels, froms, tos, props) ==
    AppendNew(rels, {[from |-> a, to |-> b, props |-> props] : a \in froms, b \in tos})

\* does MERGE refuse this pattern: a null property value in it
HasNull(values) == \E i \in 1..Len(values) : values[i] = NONE

(* create_company_nodes, lines 397-417 *)

\* SET that keeps what the node has where the row has null (coalesce)
CompanySetKeep(n, row) ==
    [n EXCEPT !.name = IF row.name = NONE THEN @ ELSE row.name,
              !.countryOfOrigin = IF row.countryOfOrigin = NONE THEN @
                                  ELSE row.countryOfOrigin,
              !.incorporationDate = IF row.incorporationDate = NONE THEN @
                                    ELSE DateOrNull(row.incorporationDate),
              !.numMortCharges = toInteger(row.numMortCharges)]

\* SET c.name = row.name, ... (lines 400-416)
CompanySet(n, row) ==
    [n EXCEPT !.name = row.name,
              !.countryOfOrigin = row.countryOfOrigin,
              !.incorporationDate = DateOrNull(row.incorporationDate),
              !.numMortCharges = toInteger(row.numMortCharges)]

NewCompany(row) ==
    CompanySet([companyNumber |-> row.companyNumber, name |-> NONE,
                countryOfOrigin |-> NONE, incorporationDate |-> NONE,
                numMortCharges |-> NONE], row)

\* the company statement with CREATE for MERGE
CreateCompanyRow(st, row) ==
    IF HasNull(<<row.companyNumber>>) THEN Failed(st)
    ELSE Ok([st EXCEPT !.Company = Append(@, NewCompany(row))])

\* MERGE (c:Company {companyNumber}) SET ... for one row of the batch
MergeCompanyRow(st, row) ==
    IF HasNull(<<row.companyNumber>>) THEN Failed(st)
    ELSE LET ps == Places(st.Company, LAMBDA n : n.companyNumber = row.companyNumber)
         IN  IF ps = {}
             THEN Ok([st EXCEPT !.Company = Append(@, NewCompany(row))])
             ELSE Ok([st EXCEPT !.Company =
                         SetAt(@, ps, LAMBDA n : CompanySet(n, row))])

(* create_address_nodes_and_relationships, lines 472-495 *)

AddressKey(n) == <<n.addressLine1, n.postTown, n.postCode>>

AddressSet(n, row) ==
    [n EXCEPT !.addressLine2 = row.addressLine2, !.country = row.country]

\* the address statement with CREATE for MERGE
CreateAddressRow(st, row) ==
    IF HasNull(AddressKey(row)) THEN Failed(st)
    ELSE Ok([st EXCEPT !.Address = Append(@,
                AddressSet([addressLine1 |-> row.addressLine1,
                            postTown |-> row.postTown, postCode |-> row.postCode,
                            addressLine2 |-> NONE, country |-> NONE], row))])

\* MERGE (a:Address {addressLine1, postTown, postCode}) SET ...
MergeAddressRow(st, row) ==
    IF HasNull(AddressKey(row)) THEN Failed(st)
    ELSE LET ps == Places(st.Address, LAMBDA n : AddressKey(n) = AddressKey(row))
             new == AddressSet([addressLine1 |-> row.addressLine1,
                                postTown |-> row.postTown, postCode |-> row.postCode,
                                addressLine2 |-> NONE, country |-> NONE], row)
         IN  IF ps = {}
             THEN Ok([st EXCEPT !.Address = Append(@, new)])
             ELSE Ok([st EXCEPT !.Address =
                         SetAt(@, ps, LAMBDA n : AddressSet(n, row))])

\* the relationship statement with CREATE for MERGE
CreateHasAddressRow(st, row) ==
    LET cs == Places(st.Company, LAMBDA n : n.companyNumber = row.companyNumber)
        as == Places(st.Address, LAMBDA n : AddressKey(n) = AddressKey(row))
    IN  Ok([st EXCEPT !.HAS_ADDRESS = CreateRel(@, cs, as, <<TRUE>>)])

\* MATCH (c:Company) MATCH (a:Address) MERGE (c)-[:HAS_ADDRESS {isCurrent: true}]->(a)
MergeHasAddressRow(st, row) ==
    LET cs == Places(st.Company, LAMBDA n : n.companyNumber = row.companyNumber)
        as == Places(st.Address, LAMBDA n : AddressKey(n) = AddressKey(row))
    IN  Ok([st EXCEPT !.HAS_ADDRESS = MergeRel(@, cs, as, <<TRUE>>)])

(* extract_and_create_country_nodes, lines 330-334 *)

\* MERGE (c:Country {name}) SET c.code
MergeCountryRow(st, row) ==
    IF HasNull(<<row.name>>) THEN Failed(st)
    ELSE LET ps == Places(st.Country, LAMBDA n : n.name = row.name)
         IN  IF ps = {}
             THEN Ok([st EXCEPT !.Country = Append(@, [name |-> row.name, code |-> row.code])])
             ELSE Ok([st EXCEPT !.Country =
                         SetAt(@, ps, LAMBDA n : [n EXCEPT !.code = row.code])])

(* extract_and_create_sic_codes, lines 371-375 *)

\* MERGE (s:SICCode {code}) SET s.description
MergeSicRow(st, row) ==
    IF HasNull(<<row.code>>) THEN Failed(st)
    ELSE LET ps == Places(st.SICCode, LAMBDA n : n.code = row.code)
         IN  IF ps = {}
             THEN Ok([st EXCEPT !.SICCode =
                         Append(@, [code |-> row.code, description |-> row.description])])
             ELSE Ok([st EXCEPT !.SICCode =
                         SetAt(@, ps, LAMBDA n : [n EXCEPT !.description = row.description])])

(* create_company_sic_relationships, lines 575-580 *)

\* the classification statement with CREATE for MERGE
CreateClassifiedAsRow(st, row) ==
    LET cs == Places(st.Company, LAMBDA n : n.companyNumber = row.companyNumber)
        ss == Places(st.SICCode, LAMBDA n : n.code = row.sicCode)
    IN  Ok([st EXCEPT !.CLASSIFIED_AS = CreateRel(@, cs, ss, <<row.rank>>)])

\* MATCH (c:Company) MATCH (s:SICCode) MERGE (c)-[:CLASSIFIED_AS {rank}]->(s)
MergeClassifiedAsRow(st, row) ==
    LET cs == Places(st.Company, LAMBDA n : n.companyNumber = row.companyNumber)
        ss == Places(st.SICCode, LAMBDA n : n.code = row.sicCode)
    IN  Ok([st EXCEPT !.CLASSIFIED_AS = MergeRel(@, cs, ss, <<row.rank>>)])

(* create_previous_name_nodes_and_relationships, lines 632-647 *)

PrevKey(n) == <<n.companyNumber, n.name, n.sequence>>

\* the statement with its MATCH after the node's MERGE: the PreviousName node
\* is made whether or not the Company is there
MergePreviousNameRowUnmatched(st, row) ==
    LET cs == Places(st.Company, LAMBDA n : n.companyNumber = row.companyNumber)
        key == <<row.companyNumber, row.previousName, row.sequence>>
        ps == Places(st.PreviousName, LAMBDA n : PrevKey(n) = key)
        date == DateOrNull(row.changeDate)
        new == [companyNumber |-> row.companyNumber, name |-> row.previousName,
                sequence |-> row.sequence, changeDate |-> date]
        nodes == IF ps = {} THEN Append(st.PreviousName, new)
                 ELSE SetAt(st.PreviousName, ps, LAMBDA n : [n EXCEPT !.changeDate = date])
        pns == IF ps = {} THEN {Len(nodes)} ELSE ps
    IN  IF HasNull(<<row.companyNumber, row.previousName>>) THEN Failed(st)
        ELSE IF cs # {} /\ HasNull(<<date>>) THEN Failed(st)
        ELSE Ok([st EXCEPT !.PreviousName = nodes,
                           !.PREVIOUSLY_NAMED = MergeRel(@, cs, pns, <<date, row.sequence>>)])

\* MATCH (c:Company) MERGE (pn:PreviousName {companyNumber, name, sequence})
\* SET pn.changeDate MERGE (c)-[:PREVIOUSLY_NAMED {changeDate, sequence}]->(pn);
\* nothing after the MATCH runs for a row that matches no Company
MergePreviousNameRow(st, row) ==
    LET cs == Places(st.Company, LAMBDA n : n.companyNumber = row.companyNumber)
        key == <<row.companyNumber, row.previousName, row.sequence>>
        ps == Places(st.PreviousName, LAMBDA n : PrevKey(n) = key)
        date == DateOrNull(row.changeDate)
        new == [companyNumber |-> row.companyNumber, name |-> row.previousName,
                sequence |-> row.sequence, changeDate |-> date]
        nodes == IF ps = {} THEN Append(st.PreviousName, new)
                 ELSE SetAt(st.PreviousName, ps, LAMBDA n : [n EXCEPT !.changeDate = date])
        pns == IF ps = {} THEN {Len(nodes)} ELSE ps
    IN  IF cs = {} THEN Ok(st)
        ELSE IF HasNull(<<row.companyNumber, row.previousName>>) \/ HasNull(<<date>>)
             THEN Failed(st)
        ELSE Ok([st EXCEPT !.PreviousName = nodes,
                           !.PREVIOUSLY_NAMED = MergeRel(@, cs, pns, <<date, row.sequence>>)])

(* create_address_country_relationships, lines 556-561 *)

\* MATCH (a:Address) WHERE a.country IS NOT NULL AND a.country <> ''
\* MATCH (c:Country {name: a.country}) MERGE (a)-[:LOCATED_IN]->(c)
RECURSIVE LocatedInFromAnyCountry(_, _)
\* the statement with its second MATCH left open, MATCH (c:Country): every
\* Address with a country is linked to every Country
LocatedInFromAnyCountry(st, i) ==
    IF i > Len(st.Address) THEN st
    ELSE LET a == st.Address[i]
             cs == IF a.country # NONE /\ a.country # <<>>
                   THEN 1..Len(st.Country) ELSE {}
         IN  LocatedInFromAnyCountry(
                 [st EXCEPT !.LOCATED_IN = MergeRel(@, {i}, cs, <<>>)], i + 1)

RECURSIVE LocatedInFrom(_, _)
LocatedInFrom(st, i) ==
    IF i > Len(st.Address) THEN st
    ELSE LET a == st.Address[i]
             cs == IF a.country # NONE /\ a.country # <<>>
                   THEN Places(st.Country, LAMBDA n : n.name = a.country) ELSE {}
         IN  LocatedInFrom([st EXCEPT !.LOCATED_IN = MergeRel(@, {i}, cs, <<>>)], i + 1)

CypherLocatedIn(st) == Ok(LocatedInFrom(st, 1))

\* the effect of one row of $batch under a statement of the loaders
RowEffect(stmt, st, row) ==
    CASE stmt = "Company" -> MergeCompanyRow(st, row)
      [] stmt = "Address" -> MergeAddressRow(st, row)
      [] stmt = "HAS_ADDRESS" -> MergeHasAddressRow(st, row)
      [] stmt = "Country" -> MergeCountryRow(st, row)
      [] stmt = "SICCode" -> MergeSicRow(st, row)
      [] stmt = "CLASSIFIED_AS" -> MergeClassifiedAsRow(st, row)
      [] stmt = "PreviousName" -> MergePreviousNameRow(st, row)

RECURSIVE UnwindFrom(_, _, _, _)
UnwindFrom(stmt, res, batch, i) ==
    IF i > Len(batch) \/ ~res.ok THEN res
    ELSE UnwindFrom(stmt, RowEffect(stmt, res.store, batch[i]), batch, i + 1)

\* UNWIND $batch AS row <statement>: all rows in order, or none of them
Unwind(stmt, st, batch) ==
    LET res == UnwindFrom(stmt, Ok(st), batch, 1)
    IN  IF res.ok THEN res ELSE Failed(st)

----------------------------------------------------------------------------
(* The loaders' row handling: what each makes of the rows of one batch *)

\* row.get(column, "0") or "0"
OrZero(v) == IF Truthy(v) THEN v ELSE <<"0">>

\* the entry create_company_nodes appends for a row (lines 431-448)
CompanyEntry(row) ==
    [companyNumber |-> clean_string(row.CompanyNumber),
     name |-> clean_string(row.CompanyName),
     countryOfOrigin |-> clean_string(row.CountryOfOrigin),
     incorporationDate |-> parse_date(row.IncorporationDate),
     numMortCharges |-> OrZero(row.NumMortCharges)]

\* the row test of create_company_nodes without its guard: every row is kept
CompanyRowKeepAll(b, row) ==
    [b EXCEPT !.data = Append(@, CompanyEntry(row))]

\* one pass of the row loop of create_company_nodes (lines 424-448)
CompanyRow(b, row) ==
    LET company_number == clean_string(row.CompanyNumber)
    IN  IF ~Truthy(company_number)
        THEN [b EXCEPT !.skipped = @ + 1]
        ELSE [b EXCEPT !.data = Append(@, CompanyEntry(row))]

\* the row test of create_address_nodes_and_relationships without its test of
\* the address fields: a row with a company number is always written
AddressRowAnyAddress(b, row) ==
    LET company_number == clean_string(row.CompanyNumber)
    IN  IF ~Truthy(company_number)
        THEN [b EXCEPT !.skipped_company = @ + 1]
        ELSE [b EXCEPT !.data = Append(@,
                 [companyNumber |-> company_number,
                  addressLine1 |-> clean_string(row.AddressLine1),
                  addressLine2 |-> clean_string(row.AddressLine2),
                  postTown |-> clean_string(row.PostTown),
                  country |-> clean_string(row.AddrCountry),
                  postCode |-> clean_string(row.PostCode)])]

\* one pass of the row loop of create_address_nodes_and_relationships
\* (lines 503-529)
AddressRow(b, row) ==
    LET company_number == clean_string(row.CompanyNumber)
        addr_line1 == clean_string(row.AddressLine1)
        post_town == clean_string(row.PostTown)
        post_code == clean_string(row.PostCode)
    IN  IF ~Truthy(company_number)
        THEN [b EXCEPT !.skipped_company = @ + 1]
        ELSE IF ~Truthy(addr_line1) \/ ~Truthy(post_town) \/ ~Truthy(post_code)
        THEN [b EXCEPT !.skipped_address = @ + 1]
        ELSE [b EXCEPT !.data = Append(@,
                 [companyNumber |-> company_number,
                  addressLine1 |-> addr_line1,
                  addressLine2 |-> clean_string(row.AddressLine2),
                  postTown |-> post_town,
                  country |-> clean_string(row.AddrCountry),
                  postCode |-> post_code])]

RECURSIVE SicEntriesCompacted(_, _, _)
\* the entries with the rank counted over the populated slots only
SicEntriesCompacted(company_number, row, k) ==
    IF k > NumSicSlots THEN <<>>
    ELSE LET code == parse_sic_code(row.SicText[k])[1]
             rest == SicEntriesCompacted(company_number, row, k + 1)
             before == {j \in 1..(k - 1) : Truthy(parse_sic_code(row.SicText[j])[1])}
         IN  IF Truthy(code)
             THEN <<[companyNumber |-> company_number, sicCode |-> code,
                     rank |-> Cardinality(before) + 1]>> \o rest
             ELSE rest

RECURSIVE SicEntries(_, _, _)
\* the entries of the slots k..4 of a row (lines 598-608)
SicEntries(company_number, row, k) ==
    IF k > NumSicSlots THEN <<>>
    ELSE LET code == parse_sic_code(row.SicText[k])[1]
             rest == SicEntries(company_number, row, k + 1)
         IN  IF Truthy(code)
             THEN <<[companyNumber |-> company_number, sicCode |-> code, rank |-> k]>>
                  \o rest
             ELSE rest

\* one pass of the row loop of create_company_sic_relationships (lines 588-608)
SicRelRow(b, row) ==
    LET company_number == clean_string(row.CompanyNumber)
    IN  IF ~Truthy(company_number)
        THEN [b EXCEPT !.skipped = @ + 1]
        ELSE [b EXCEPT !.rows_processed = @ + 1,
                       !.data = @ \o SicEntries(company_number, row, 1)]

RECURSIVE PrevEntries(_, _, _)
\* the entries of the slots seq..10 of a row (lines 666-680)
PrevEntries(company_number, row, seq) ==
    IF seq > NumPrevSlots THEN <<>>
    ELSE LET prev_name == clean_string(row.PrevName[seq].name)
             change_date == parse_date(row.PrevName[seq].date)
             rest == PrevEntries(company_number, row, seq + 1)
         IN  IF Truthy(prev_name)
             THEN <<[companyNumber |-> company_number, previousName |-> prev_name,
                     changeDate |-> change_date, sequence |-> seq]>> \o rest
             ELSE rest

\* one pass of the row loop of create_previous_name_nodes_and_relationships
\* (lines 656-680)
PrevRow(b, row) ==
    LET company_number == clean_string(row.CompanyNumber)
    IN  IF ~Truthy(company_number)
        THEN [b EXCEPT !.skipped = @ + 1]
        ELSE LET es == PrevEntries(company_number, row, 1)
             IN  [b EXCEPT !.rows_processed = @ + 1, !.data = @ \o es,
                           !.names_created = @ + Len(es)]

\* the locals a loader resets for every batch, and its skip counters
NewBatch ==
    [data |-> <<>>, skipped |-> 0, skipped_address |-> 0, skipped_company |-> 0,
     rows_processed |-> 0, names_created |-> 0]

\* one pass of the row loop of the named loader
RowStep(loader, b, row) ==
    CASE loader = "Company" -> CompanyRow(b, row)
      [] loader = "Address" -> AddressRow(b, row)
      [] loader = "CLASSIFIED_AS" -> SicRelRow(b, row)
      [] loader = "PreviousName" -> PrevRow(b, row)

RECURSIVE BatchFrom(_, _, _, _)
BatchFrom(loader, b, batch_rows, i) ==
    IF i > Len(batch_rows) THEN b
    ELSE BatchFrom(loader, RowStep(loader, b, batch_rows[i]), batch_rows, i + 1)

\* the row loop of the named loader over one batch of rows
BatchData(loader, batch_rows) == BatchFrom(loader, NewBatch, batch_rows, 1)

(* The extraction scans *)

\* set.add / insertion into a list kept free of repeats
AddOnce(seq, v) ==
    IF \E i \in 1..Len(seq) : seq[i] = v THEN seq ELSE Append(seq, v)

RECURSIVE CountryScanKeyed(_, _, _)
\* the scan with the loaders' guard put in: rows without a company number
\* are passed over
CountryScanKeyed(countries, rows, i) ==
    IF i > Len(rows) THEN countries
    ELSE LET country_of_origin == clean_string(rows[i].CountryOfOrigin)
             address_country == clean_string(rows[i].AddrCountry)
             c1 == IF Truthy(country_of_origin)
                   THEN AddOnce(countries, country_of_origin) ELSE countries
             c2 == IF Truthy(address_country) THEN AddOnce(c1, address_country) ELSE c1
         IN  CountryScanKeyed(IF Truthy(clean_string(rows[i].CompanyNumber))
                              THEN c2 ELSE countries, rows, i + 1)

RECURSIVE CountryScanFrom(_, _, _)
\* the scan of extract_and_create_country_nodes (lines 304-314); the set is
\* kept in the order its members were first seen
CountryScanFrom(countries, rows, i) ==
    IF i > Len(rows) THEN countries
    ELSE LET country_of_origin == clean_string(rows[i].CountryOfOrigin)
             address_country == clean_string(rows[i].AddrCountry)
             c1 == IF Truthy(country_of_origin)
                   THEN AddOnce(countries, country_of_origin) ELSE countries
             c2 == IF Truthy(address_country) THEN AddOnce(c1, address_country) ELSE c1
         IN  CountryScanFrom(c2, rows, i + 1)

\* country_data (lines 325-328)
country_data(rows) ==
    LET countries == CountryScanFrom(<<>>, rows, 1)
    IN  [i \in 1..Len(countries) |->
            [name |-> countries[i], code |-> get_country_code(countries[i])]]

RECURSIVE SicScanSlotsLastWins(_, _, _)
\* the slot loop without its "not in sic_codes" test: a later description
\* replaces an earlier one
SicScanSlotsLastWins(sic_codes, row, k) ==
    IF k > NumSicSlots THEN sic_codes
    ELSE LET p == parse_sic_code(row.SicText[k])
             seen == {i \in 1..Len(sic_codes) : sic_codes[i].code = p[1]}
         IN  SicScanSlotsLastWins(
                 IF ~Truthy(p[1]) THEN sic_codes
                 ELSE IF seen = {}
                 THEN Append(sic_codes, [code |-> p[1], description |-> p[2]])
                 ELSE [i \in 1..Len(sic_codes) |->
                          IF i \in seen THEN [sic_codes[i] EXCEPT !.description = p[2]]
                          ELSE sic_codes[i]],
                 row, k + 1)

RECURSIVE SicScanSlots(_, _, _)
\* the slot loop of extract_and_create_sic_codes for one row (lines 351-355)
SicScanSlots(sic_codes, row, k) ==
    IF k > NumSicSlots THEN sic_codes
    ELSE LET p == parse_sic_code(row.SicText[k])
             seen == \E i \in 1..Len(sic_codes) : sic_codes[i].code = p[1]
         IN  SicScanSlots(IF Truthy(p[1]) /\ ~seen
                          THEN Append(sic_codes, [code |-> p[1], description |-> p[2]])
                          ELSE sic_codes, row, k + 1)

RECURSIVE SicScanFrom(_, _, _)
SicScanFrom(sic_codes, rows, i) ==
    IF i > Len(rows) THEN sic_codes
    ELSE SicScanFrom(SicScanSlots(sic_codes, rows[i], 1), rows, i + 1)

\* sic_data (lines 347-369): the dict's items, in insertion order
sic_data(rows) == SicScanFrom(<<>>, rows, 1)

----------------------------------------------------------------------------
(* main: the load orchestrator *)

\* the constraint statements (lines 238-264) and index statements (266-274)
NumConstraints == 5
NumIndexes == 5
\* the count queries of verify_load (lines 705-715)
NumCounts == 9

\* what a failing schema statement can say, and whether the store was
\* unreachable (ServiceUnavailable) when it said so
Messages == <<
    [text |-> <<"a","l","r","e","a","d","y"," ","e","x","i","s","t","s">>,
     unreachable |-> FALSE],
    [text |-> <<"I","n","d","e","x"," ","A","l","r","e","a","d","y"," ",
                "E","x","i","s","t","s",":"," ","x">>,
     unreachable |-> FALSE],
    [text |-> <<"U","n","a","v","a","i","l","a","b","l","e">>,
     unreachable |-> TRUE],
    [text |-> <<"e","x","i","s","t","s"," ","a","l","r","e","a","d","y","?">>,
     unreachable |-> FALSE]
>>

NoFails == [m \in 1..Len(Messages) |-> 0]

RECURSIVE SumTo(_, _)
SumTo(f, n) == IF n = 0 THEN 0 ELSE f[n] + SumTo(f, n - 1)

\* the test of lines 280 and 287 without str.lower()
IsNoteCaseSensitive(text) ==
    ~Contains(text, <<"a","l","r","e","a","d","y"," ","e","x","i","s","t","s">>)

\* "already exists" not in str(e).lower()  (lines 280, 287)
IsNote(text) ==
    ~Contains(Lower(text), <<"a","l","r","e","a","d","y"," ","e","x","i","s","t","s">>)

\* the phases of main's try block, in the order of lines 761-789
MainPhases ==
    <<"schema", "countries", "sic", "company", "address", "link", "sicrel",
      "prev", "verify">>

\* main with the classification links moved ahead of the company load
NextPhaseSicRelEarly(p) ==
    CASE p = "schema" -> "countries" [] p = "countries" -> "sic"
      [] p = "sic" -> "sicrel" [] p = "sicrel" -> "company"
      [] p = "company" -> "address" [] p = "address" -> "link"
      [] p = "link" -> "prev" [] p = "prev" -> "verify"
      [] p = "verify" -> "complete"

\* what main calls after the phase p returns
NextPhase(p) ==
    LET i == CHOOSE k \in 1..Len(MainPhases) : MainPhases[k] = p
    IN  IF i < Len(MainPhases) THEN MainPhases[i + 1] ELSE "complete"

\* the locals of a loader as it starts
NewLoader(batches) ==
    [batches |-> batches, next |-> 1, processed |-> 0, skipped |-> 0,
     skipped_address |-> 0, skipped_company |-> 0, names_created |-> 0,
     data |-> <<>>, half |-> FALSE, idx |-> 0, fails |-> NoFails]

\* what the function of phase p has in hand before its first statement
EnterPhase(p, f) ==
    CASE p \in {"company", "address", "sicrel", "prev"} ->
            NewLoader(batch_generator(stream_csv(f), BATCH_SIZE))
      [] p = "sic" -> NewLoader(batch_generator(sic_data(stream_csv(f)), BATCH_SIZE))
      [] OTHER -> NewLoader(<<>>)

NoQuery == [state |-> "none", acquired |-> 0, closed |-> 0, issuedAtClose |-> 0,
            lostInSchema |-> FALSE]

NoLog ==
    [error |-> 0, warning |-> 0, complete |-> FALSE, progress |-> <<>>,
     summary |-> <<>>]

NoBg == BgStart(<<>>, 1)

NoCall == [fn |-> "none"]

\* a statement handed to query.run: the phase of main it belongs to, what it
\* writes, its number within the phase, and whether the call's exception
\* reached main's except clause
Stmt(phase, kind, n) ==
    [phase |-> phase, kind |-> kind, n |-> n, raised |-> FALSE,
     rejected |-> FALSE]

Goto(p) == pc' = p /\ ldr' = EnterPhase(p, file)

\* the function of phase p returns: main calls the next one (lines 761-789),
\* a caller that runs the function on its own has control back
Return(p) ==
    IF snap.loader = "main" THEN Goto(NextPhase(p))
    ELSE pc' = "returned" /\ ldr' = ldr

\* an exception leaves the try block for the except clause (line 793)
Raise == pc' = "except" /\ outcome' = "raising" /\ ldr' = NewLoader(<<>>)

\* query.run(statement): the store applies it, or the call raises and the
\* store is as before; a statement the store cannot apply is rejected, any
\* other statement may still meet a failure of the store
RunOrRaise(stmt, res, Continue) ==
    \/ /\ res.ok
       /\ store' = res.store
       /\ issued' = Append(issued, stmt)
       /\ Continue
    \/ /\ store' = store
       /\ issued' = Append(issued, [stmt EXCEPT !.raised = TRUE,
                                                !.rejected = ~res.ok])
       /\ Raise

\* lines 742-752
Preflight ==
    /\ pc = "start"
    /\ IF ~fileExists
       THEN /\ log' = [log EXCEPT !.error = @ + 2]
            /\ pc' = "done"
            /\ outcome' = "returned"
       ELSE /\ log' = log
            /\ pc' = "connect"
            /\ outcome' = outcome
    /\ UNCHANGED <<file, fileExists, store, query, issued, ldr, bg, call, snap>>

\* line 759: get_query() returns a connection, or raises
GetQuery ==
    /\ pc = "connect"
    /\ \/ /\ query' = [query EXCEPT !.state = "open", !.acquired = @ + 1]
          /\ Goto("schema")
          /\ outcome' = outcome
       \/ /\ query' = query
          /\ Raise
    /\ UNCHANGED <<file, fileExists, store, log, issued, bg, call, snap>>

\* the schema statements that may fail in the run at hand: a failure is
\* caught and writes nothing, so the runs whose stores are compared with
\* one another are taken without any
FaultBudget == IF snap.run = 0 THEN MaxFaults ELSE 0

\* lines 276-288: the next constraint or index statement; a failure is
\* caught, and logged as a warning unless it says "already exists"
SchemaStmt ==
    /\ pc = "schema"
    /\ ldr.idx < NumConstraints + NumIndexes
    /\ issued' = Append(issued,
                    IF ldr.idx < NumConstraints
                    THEN Stmt("schema", "constraint", ldr.idx + 1)
                    ELSE Stmt("schema", "index", ldr.idx + 1 - NumConstraints))
    /\ \/ /\ ldr' = [ldr EXCEPT !.idx = @ + 1]
          /\ UNCHANGED <<log, query>>
       \/ /\ SumTo(ldr.fails, Len(Messages)) < FaultBudget
          /\ \E m \in 1..Len(Messages) :
               /\ ldr' = [ldr EXCEPT !.idx = @ + 1, !.fails[m] = @ + 1]
               /\ log' = IF IsNote(Messages[m].text)
                         THEN [log EXCEPT !.warning = @ + 1] ELSE log
               /\ query' = IF Messages[m].unreachable
                           THEN [query EXCEPT !.lostInSchema = TRUE] ELSE query
    /\ UNCHANGED <<file, fileExists, pc, store, outcome, bg, call, snap>>

\* line 290: create_constraints_and_indexes returns
SchemaDone ==
    /\ pc = "schema"
    /\ ldr.idx = NumConstraints + NumIndexes
    /\ Goto(NextPhase("schema"))
    /\ UNCHANGED <<file, fileExists, store, query, log, issued, outcome, bg, call, snap>>

\* every order of the members of a list
Orders(seq) ==
    {[i \in 1..Len(seq) |-> seq[f[i]]] :
        f \in {g \in [1..Len(seq) -> 1..Len(seq)] :
                  \A i, j \in 1..Len(seq) : g[i] = g[j] => i = j}}

\* for name in countries (line 326): a set is iterated in an order that the
\* process's hash seed fixes.  Where the stores of two runs are compared
\* every order is taken; in a run of main on its own the order of first
\* insertion stands for them all (no later statement of that run reads the
\* order the Country nodes were made in)
CountryOrders(rows) ==
    IF snap.run = 0 THEN {country_data(rows)} ELSE Orders(country_data(rows))

\* extract_and_create_country_nodes (lines 304-337): the scan, then one write
ExtractCountries ==
    /\ pc = "countries"
    /\ \E batch \in CountryOrders(stream_csv(file)) :
          RunOrRaise(Stmt("countries", "Country", 1),
                     Unwind("Country", store, batch),
                     Return("countries") /\ outcome' = outcome)
    /\ UNCHANGED <<file, fileExists, query, log, bg, call, snap>>

\* a loader is at a batch / is past its last batch
AtBatch == ldr.next <= Len(ldr.batches)
PastBatches == ldr.next > Len(ldr.batches)

\* extract_and_create_sic_codes (lines 377-378): the next batch of sic_data
SicBatch ==
    /\ pc = "sic" /\ AtBatch
    /\ RunOrRaise(Stmt("sic", "SICCode", ldr.next),
                  Unwind("SICCode", store, ldr.batches[ldr.next]),
                  /\ ldr' = [ldr EXCEPT !.next = @ + 1]
                  /\ UNCHANGED <<pc, outcome>>)
    /\ UNCHANGED <<file, fileExists, query, log, bg, call, snap>>

\* rows between two progress lines; stands for the 50000 of data_mapper.py:59,
\* a whole number of batches as 50000 is of 2000
LOG_INTERVAL == LogEvery * BATCH_SIZE

\* the rows a loader has seen: processed plus skipped (lines 454, 538, 614,
\* 686)
Seen(l) == l.processed + l.skipped + l.skipped_address + l.skipped_company

\* the test of the progress line without its test of the interval
ProgressDueAtEndOnly(total_seen, total_rows) == total_seen >= total_rows

\* the test of the progress line (lines 454, 539, 615, 687)
ProgressDue(total_seen, total_rows) ==
    total_seen % LOG_INTERVAL = 0 \/ total_seen >= total_rows

\* the log after a batch of the loader of phase p whose counters are l
Logged(lg, p, l) ==
    IF ProgressDue(Seen(l), count_rows(file))
    THEN [lg EXCEPT !.progress = Append(@, [loader |-> p, seen |-> Seen(l)])]
    ELSE lg

\* the counters after a batch with the rows without a company number left
\* out of the count
CountedLessCompanySkips(l, b) ==
    [l EXCEPT !.next = @ + 1, !.data = <<>>, !.half = FALSE,
              !.processed = @ + (IF pc \in {"company", "address"}
                                 THEN Len(b.data) ELSE b.rows_processed),
              !.skipped = @ + b.skipped,
              !.skipped_address = @ + b.skipped_address,
              !.names_created = @ + b.names_created]

\* the counters of a loader after a batch (lines 453, 537, 613, 685)
Counted(l, b) ==
    [l EXCEPT !.next = @ + 1, !.data = <<>>, !.half = FALSE,
              !.processed = @ + (IF pc \in {"company", "address"}
                                 THEN Len(b.data) ELSE b.rows_processed),
              !.skipped = @ + b.skipped,
              !.skipped_address = @ + b.skipped_address,
              !.skipped_company = @ + b.skipped_company,
              !.names_created = @ + b.names_created]

\* one batch of a loader that writes one statement per batch:
\* create_company_nodes (422-453), create_company_sic_relationships (585-613),
\* create_previous_name_nodes_and_relationships (653-685)
LoaderBatch(phase, kind) ==
    /\ pc = phase /\ AtBatch
    /\ LET b == BatchData(kind, ldr.batches[ldr.next])
       IN  IF b.data # <<>>
           THEN /\ RunOrRaise(Stmt(phase, kind, ldr.next),
                              Unwind(kind, store, b.data),
                              /\ ldr' = Counted(ldr, b)
                              /\ UNCHANGED <<pc, outcome>>)
                /\ log' = IF pc' = "except" THEN log
                          ELSE Logged(log, phase, Counted(ldr, b))
           ELSE /\ ldr' = Counted(ldr, b)
                /\ log' = Logged(log, phase, Counted(ldr, b))
                /\ UNCHANGED <<issued, store, pc, outcome>>
    /\ UNCHANGED <<file, fileExists, query, bg, call, snap>>

CompanyBatch == LoaderBatch("company", "Company")
SicRelBatch == LoaderBatch("sicrel", "CLASSIFIED_AS")
PrevBatch == LoaderBatch("prev", "PreviousName")

\* create_address_nodes_and_relationships (501-533): a batch up to its
\* first write, the Address nodes
AddressBatch ==
    /\ pc = "address" /\ AtBatch /\ ~ldr.half
    /\ LET b == BatchData("Address", ldr.batches[ldr.next])
       IN  IF b.data # <<>>
           THEN /\ RunOrRaise(Stmt("address", "Address", ldr.next),
                              Unwind("Address", store, b.data),
                              /\ ldr' = [ldr EXCEPT !.half = TRUE]
                              /\ UNCHANGED <<pc, outcome>>)
                /\ log' = log
           ELSE /\ ldr' = Counted(ldr, b)
                /\ log' = Logged(log, "address", Counted(ldr, b))
                /\ UNCHANGED <<issued, store, pc, outcome>>
    /\ UNCHANGED <<file, fileExists, query, bg, call, snap>>

\* lines 535-537: the second write of the batch, the HAS_ADDRESS relationships
HasAddressBatch ==
    /\ pc = "address" /\ AtBatch /\ ldr.half
    /\ LET b == BatchData("Address", ldr.batches[ldr.next])
       IN  /\ RunOrRaise(Stmt("address", "HAS_ADDRESS", ldr.next),
                         Unwind("HAS_ADDRESS", store, b.data),
                         /\ ldr' = Counted(ldr, b)
                         /\ UNCHANGED <<pc, outcome>>)
           /\ log' = IF pc' = "except" THEN log
                     ELSE Logged(log, "address", Counted(ldr, b))
    /\ UNCHANGED <<file, fileExists, query, bg, call, snap>>

\* the warnings a loader logs as it returns (lines 457, 542-545, 618, 690)
SkipWarnings(l) ==
    (IF l.skipped > 0 THEN 1 ELSE 0) + (IF l.skipped_address > 0 THEN 1 ELSE 0)
    + (IF l.skipped_company > 0 THEN 1 ELSE 0)

\* the log after the lines a loader writes as it returns: its warnings and
\* its summary line (lines 456-459, 541-546, 617-620, 689-692, 380)
Summary(lg, p, l) ==
    [lg EXCEPT !.warning = @ + SkipWarnings(l), !.summary = Append(@, p)]

\* a loader returns after its last batch
LoaderDone ==
    /\ pc \in {"sic", "company", "address", "sicrel", "prev"} /\ PastBatches
    /\ log' = Summary(log, pc, ldr)
    /\ Return(pc)
    /\ UNCHANGED <<file, fileExists, store, query, issued, outcome, bg, call, snap>>

\* create_address_country_relationships (lines 556-564)
LinkCountries ==
    /\ pc = "link"
    /\ RunOrRaise(Stmt("link", "LOCATED_IN", 1),
                  CypherLocatedIn(store),
                  Return("link") /\ outcome' = outcome)
    /\ UNCHANGED <<file, fileExists, query, log, bg, call, snap>>

\* verify_load (lines 721-724): the next count query
VerifyStmt ==
    /\ pc = "verify"
    /\ ldr.idx < NumCounts
    /\ RunOrRaise(Stmt("verify", "count", ldr.idx + 1),
                  Ok(store),
                  /\ ldr' = [ldr EXCEPT !.idx = @ + 1]
                  /\ UNCHANGED <<pc, outcome>>)
    /\ UNCHANGED <<file, fileExists, query, log, bg, call, snap>>

\* lines 726, 791: verify_load returns and main logs the load complete
VerifyDone ==
    /\ pc = "verify"
    /\ ldr.idx = NumCounts
    /\ log' = [log EXCEPT !.complete = TRUE]
    /\ pc' = "finally"
    /\ outcome' = "returning"
    /\ UNCHANGED <<file, fileExists, store, query, issued, ldr, bg, call, snap>>

\* an except clause that ends without raising: the failure is swallowed
Swallow(o) == "returning"

\* line 795: raise, the same exception goes on to main's caller
Reraise(o) == o

\* lines 793-795: log the failure and raise it again
Except ==
    /\ pc = "except"
    /\ log' = [log EXCEPT !.error = @ + 1]
    /\ outcome' = Reraise(outcome)
    /\ pc' = "finally"
    /\ UNCHANGED <<file, fileExists, store, query, issued, ldr, bg, call, snap>>

\* the finally clause with the close left to the success path
FinallyCloseOnSuccess(q, o) ==
    IF q.state # "none" /\ o = "returning"
    THEN [q EXCEPT !.state = "closed", !.closed = @ + 1,
                   !.issuedAtClose = Len(issued)]
    ELSE q

\* lines 797-800: close the connection if there is one
FinallyClose(q, o) ==
    IF q.state # "none"
    THEN [q EXCEPT !.state = "closed", !.closed = @ + 1,
                   !.issuedAtClose = Len(issued)]
    ELSE q

Finally ==
    /\ pc = "finally"
    /\ query' = FinallyClose(query, outcome)
    /\ pc' = "done"
    /\ outcome' = IF outcome = "raising" THEN "raised" ELSE "returned"
    /\ UNCHANGED <<file, fileExists, store, log, issued, ldr, bg, call, snap>>

\* main run once on its own: nothing is remembered (run 0)
NoSnap == [first |-> EmptyStore, initial |-> EmptyStore, run |-> 0,
           loader |-> "main"]

Init ==
    /\ fileExists \in BOOLEAN
    /\ file \in (IF fileExists THEN Files(MainRows, MaxRows) ELSE {<<>>})
    /\ pc = "start"
    /\ store = EmptyStore
    /\ query = NoQuery
    /\ log = NoLog
    /\ issued = <<>>
    /\ outcome = "running"
    /\ ldr = NewLoader(<<>>)
    /\ bg = NoBg
    /\ call = NoCall
    /\ snap = NoSnap

Next ==
    \/ Preflight
    \/ GetQuery
    \/ SchemaStmt
    \/ SchemaDone
    \/ ExtractCountries
    \/ SicBatch
    \/ CompanyBatch
    \/ AddressBatch
    \/ HasAddressBatch
    \/ LinkCountries
    \/ SicRelBatch
    \/ PrevBatch
    \/ LoaderDone
    \/ VerifyStmt
    \/ VerifyDone
    \/ Except
    \/ Finally

Spec == Init /\ [][Next]_vars

----------------------------------------------------------------------------
(* batch_generator on its own: any short sequence, any small batch size *)

Items == {"a", "b"}

InitBatch ==
    /\ bg \in {BgStart(seq, size) :
                  seq \in UNION {[1..n -> Items] : n \in 0..MaxSeqLen},
                  size \in 1..MaxBatch}
    /\ call = NoCall
    /\ pc = "batching"
    /\ fileExists = TRUE
    /\ file = <<>>
    /\ store = EmptyStore
    /\ query = NoQuery
    /\ log = NoLog
    /\ issued = <<>>
    /\ outcome = "running"
    /\ ldr = NewLoader(<<>>)
    /\ snap = NoSnap

\* lines 218-222: the loop takes the next item
BgNext ==
    /\ pc = "batching" /\ ~bg.done /\ bg.pos < Len(bg.input)
    /\ bg' = BgStep(bg)
    /\ UNCHANGED <<file, fileExists, pc, store, query, log, issued, outcome, ldr, call, snap>>

\* lines 223-224: the iterable is exhausted
BgEnd ==
    /\ pc = "batching" /\ ~bg.done /\ bg.pos = Len(bg.input)
    /\ bg' = BgFinish(bg)
    /\ UNCHANGED <<file, fileExists, pc, store, query, log, issued, outcome, ldr, call, snap>>

NextBatch == BgNext \/ BgEnd

SpecBatch == InitBatch /\ [][NextBatch]_vars

----------------------------------------------------------------------------
(* One loader run twice in succession over the same file, from a store     *)
(* that may already hold nodes                                              *)

StaleCompany(k) ==
    [companyNumber |-> k, name |-> <<"q">>, countryOfOrigin |-> <<"Z","z">>,
     incorporationDate |-> <<"date", 1999, 1, 1>>, numMortCharges |-> <<"int", 7>>]

\* the stores a loader run may start from
InitialStores ==
    {EmptyStore,
     [EmptyStore EXCEPT !.Company = <<StaleCompany(<<"A">>)>>],
     [EmptyStore EXCEPT !.Company = <<StaleCompany(<<"C">>), StaleCompany(<<"B">>)>>]}

InitLoader ==
    /\ fileExists = TRUE
    /\ file \in Files(LoaderRows, MaxRows)
    /\ store \in InitialStores
    /\ pc = "company"
    /\ ldr = EnterPhase("company", file)
    /\ snap = [first |-> EmptyStore, initial |-> store, run |-> 1,
               loader |-> "company"]
    /\ query = [NoQuery EXCEPT !.state = "open", !.acquired = 1]
    /\ log = NoLog
    /\ issued = <<>>
    /\ outcome = "running"
    /\ bg = NoBg
    /\ call = NoCall

\* the loader returns from its first run and is called again
LoaderAgain ==
    /\ pc \in {"company"} /\ PastBatches /\ snap.run = 1
    /\ log' = Summary(log, pc, ldr)
    /\ snap' = [snap EXCEPT !.first = store, !.run = 2]
    /\ ldr' = EnterPhase(pc, file)
    /\ UNCHANGED <<file, fileExists, pc, store, query, issued, outcome, bg, call>>

\* the loader returns from its second run
LoaderTwice ==
    /\ pc \in {"company"} /\ PastBatches /\ snap.run = 2
    /\ log' = Summary(log, pc, ldr)
    /\ pc' = "twice"
    /\ UNCHANGED <<file, fileExists, store, query, issued, outcome, ldr, bg, call, snap>>

NextLoader == CompanyBatch \/ LoaderAgain \/ LoaderTwice

SpecLoader == InitLoader /\ [][NextLoader]_vars

----------------------------------------------------------------------------
(* Any one function of the load called twice in succession over the same   *)
(* file, from a store that may lack the nodes its statements match          *)

StaleAddress(line1, code, country) ==
    [addressLine1 |-> line1, postTown |-> <<"T">>, postCode |-> code,
     addressLine2 |-> <<"g">>, country |-> country]

\* a store that holds company A, its address, and one SIC code and one
\* country of those the rows name
PartStore ==
    [EmptyStore EXCEPT
        !.Company = <<StaleCompany(<<"A">>)>>,
        !.Address = <<StaleAddress(<<"1">>, <<"P">>, <<"A","r">>)>>,
        !.Country = <<[name |-> <<"u","k">>, code |-> <<"G","B">>]>>,
        !.SICCode = <<[code |-> <<"1","2">>, description |-> <<"z">>]>>]

\* a store that holds every company and SIC code the rows name, two
\* addresses, one of the countries, and relationships of an earlier load
FullStore ==
    [EmptyStore EXCEPT
        !.Company = <<StaleCompany(<<"B">>), StaleCompany(<<"A">>)>>,
        !.Address = <<StaleAddress(<<"2">>, <<"Q">>, <<"A","r">>),
                      StaleAddress(<<"1">>, <<"P">>, <<"F","r">>)>>,
        !.Country = <<[name |-> <<"F","r">>, code |-> <<"F","R">>]>>,
        !.SICCode = <<[code |-> <<"7">>, description |-> NONE],
                      [code |-> <<"1","2">>, description |-> <<"z">>]>>,
        !.HAS_ADDRESS = <<[from |-> 2, to |-> 2, props |-> <<TRUE>>]>>,
        !.CLASSIFIED_AS = <<[from |-> 2, to |-> 2, props |-> <<1>>]>>]

RerunStores == {EmptyStore, PartStore, FullStore}

\* the functions called, by the name of their phase in main
RerunLoaders ==
    {"countries", "sic", "company", "address", "link", "sicrel", "prev"}

\* the rows of the files each function is called on
RerunRows(p) ==
    CASE p = "countries" -> {1, 3, 4, 6}
      [] p = "sic" -> {1, 2, 3, 4}
      [] p = "company" -> {1, 2, 4, 5}
      [] p = "address" -> {1, 2, 4, 5, 6}
      [] p = "sicrel" -> {1, 2, 3, 4}
      [] p = "prev" -> {1, 4, 7, 8}
      [] p = "link" -> {}

InitRerun ==
    /\ fileExists = TRUE
    /\ \E p \in RerunLoaders :
          /\ file \in Files(RerunRows(p), MaxRows)
          /\ pc = p
          /\ snap \in {[first |-> EmptyStore, initial |-> st, run |-> 1,
                         loader |-> p] : st \in RerunStores}
    /\ store = snap.initial
    /\ ldr = EnterPhase(pc, file)
    /\ query = [NoQuery EXCEPT !.state = "open", !.acquired = 1]
    /\ log = NoLog
    /\ issued = <<>>
    /\ outcome = "running"
    /\ bg = NoBg
    /\ call = NoCall

\* the function has returned from its first call and is called again
CallAgain ==
    /\ pc = "returned" /\ snap.run = 1
    /\ snap' = [snap EXCEPT !.first = store, !.run = 2]
    /\ pc' = snap.loader
    /\ ldr' = EnterPhase(snap.loader, file)
    /\ UNCHANGED <<file, fileExists, store, query, log, issued, outcome, bg, call>>

NextRerun ==
    \/ ExtractCountries
    \/ SicBatch
    \/ CompanyBatch
    \/ AddressBatch
    \/ HasAddressBatch
    \/ LinkCountries
    \/ SicRelBatch
    \/ PrevBatch
    \/ LoaderDone
    \/ CallAgain

SpecRerun == InitRerun /\ [][NextRerun]_vars

----------------------------------------------------------------------------
(* main run twice over the same file: the first run may end anywhere, by a *)
(* failure of the store or by completing, and the second starts afresh      *)

RECURSIVE WriteBatches(_, _, _, _)
\* the writes of a loader over the batches i.. of the file, none failing
WriteBatches(loader, st, batches, i) ==
    IF i > Len(batches) THEN st
    ELSE LET data == BatchData(loader, batches[i]).data
             s1 == IF data = <<>> THEN st ELSE Unwind(loader, st, data).store
             s2 == IF data = <<>> \/ loader # "Address" THEN s1
                   ELSE Unwind("HAS_ADDRESS", s1, data).store
         IN  WriteBatches(loader, s2, batches, i + 1)

RECURSIVE WriteSicBatches(_, _, _)
WriteSicBatches(st, batches, i) ==
    IF i > Len(batches) THEN st
    ELSE WriteSicBatches(Unwind("SICCode", st, batches[i]).store, batches, i + 1)

\* the store main leaves when every statement of lines 764-786 succeeds
LoadAll(f, st) ==
    LET rows == stream_csv(f)
        batches == batch_generator(rows, BATCH_SIZE)
        s1 == Unwind("Country", st, country_data(rows)).store
        s2 == WriteSicBatches(s1, batch_generator(sic_data(rows), BATCH_SIZE), 1)
        s3 == WriteBatches("Company", s2, batches, 1)
        s4 == WriteBatches("Address", s3, batches, 1)
        s5 == CypherLocatedIn(s4).store
        s6 == WriteBatches("CLASSIFIED_AS", s5, batches, 1)
    IN  WriteBatches("PreviousName", s6, batches, 1)

ResumeRows == {1, 2, 3}

ResumeStores == {EmptyStore, PartStore}

InitResume ==
    /\ fileExists = TRUE
    /\ file \in Files(ResumeRows, MaxRows)
    /\ store \in ResumeStores
    /\ snap = [first |-> EmptyStore, initial |-> store, run |-> 1,
               loader |-> "main"]
    /\ pc = "start"
    /\ query = NoQuery
    /\ log = NoLog
    /\ issued = <<>>
    /\ outcome = "running"
    /\ ldr = NewLoader(<<>>)
    /\ bg = NoBg
    /\ call = NoCall

\* the script is started a second time (lines 803-804)
RunAgain ==
    /\ pc = "done" /\ snap.run = 1
    /\ snap' = [snap EXCEPT !.first = store, !.run = 2]
    /\ pc' = "start"
    /\ query' = NoQuery
    /\ log' = NoLog
    /\ issued' = <<>>
    /\ outcome' = "running"
    /\ ldr' = NewLoader(<<>>)
    /\ UNCHANGED <<file, fileExists, store, bg, call>>

NextResume == Next \/ RunAgain

SpecResume == InitResume /\ [][NextResume]_vars

----------------------------------------------------------------------------
(* parse_sic_code and parse_date on their own: any short text of digits,   *)
(* hyphens, blanks, letters and line breaks; any day/month/year text       *)

Texts(alphabet, n) == UNION {[1..k -> alphabet] : k \in 0..n}

SicAlphabet == {"1", "-", " ", "a", "\n"}

SicInputs ==
    Texts(SicAlphabet, MaxTextLen)
    \cup {NONE,
          <<"N","o","n","e"," ","S","u","p","p","l","i","e","d">>,
          <<"N","O","N","E">>, <<" ","n","o","n","e"," ">>,
          <<"1","2"," ","-"," ","N","o","n","e">>,
          <<"1","\t","-","\t","a"," ","b">>}

DayTexts == {NatText(d) : d \in 0..MaxDay} \cup {Pad(d, 2) : d \in 0..9}
                \cup {<<"0","0","1">>}

MonthTexts == {NatText(m) : m \in 0..MaxMonth} \cup {Pad(m, 2) : m \in 0..9}

DateYears == {0, 1, 20, 999, 1900, 2000, 2020, 2021, 10000}

YearTexts == {NatText(y) : y \in DateYears}
                 \cup {Pad(y, 4) : y \in {y \in DateYears : y < 10000}}

DateInputs ==
    {pre \o d \o <<"/">> \o m \o <<"/">> \o y \o post :
        d \in DayTexts, m \in MonthTexts, y \in YearTexts,
        pre \in {<<>>, <<" ">>}, post \in {<<>>, <<"\n">>}}
    \cup {NONE, <<>>, <<" ">>, <<"x">>, <<"1","/","2">>,
          <<"1","/","/","2","0","2","0">>,
          <<"1"," ","/","2","/","2","0","2","0">>,
          <<"3","1","-","1","2","-","2","0","2","0">>,
          <<"2","0","2","0","-","1","2","-","3","1">>,
          <<"1","/","2","/","2","0","2","0","/">>}

InitParse ==
    /\ call \in {[fn |-> "parse_sic_code", arg |-> t, done |-> FALSE, result |-> NONE] :
                    t \in SicInputs}
           \cup {[fn |-> "parse_date", arg |-> t, done |-> FALSE, result |-> NONE] :
                    t \in DateInputs}
    /\ pc = "parsing"
    /\ fileExists = TRUE
    /\ file = <<>>
    /\ store = EmptyStore
    /\ query = NoQuery
    /\ log = NoLog
    /\ issued = <<>>
    /\ outcome = "running"
    /\ ldr = NewLoader(<<>>)
    /\ bg = NoBg
    /\ snap = NoSnap

\* parse_sic_code(sic_text) returns (lines 147-165)
ParseSicCode ==
    /\ pc = "parsing" /\ call.fn = "parse_sic_code" /\ ~call.done
    /\ call' = [call EXCEPT !.done = TRUE, !.result = parse_sic_code(call.arg)]
    /\ UNCHANGED <<file, fileExists, pc, store, query, log, issued, outcome, ldr, bg, snap>>

\* parse_date(date_str) returns (lines 133-139), on a platform whose strftime
\* pads the year or on one whose strftime does not
ParseDate ==
    /\ pc = "parsing" /\ call.fn = "parse_date" /\ ~call.done
    /\ \E padded \in BOOLEAN :
          call' = [call EXCEPT !.done = TRUE,
                               !.result = parse_date_on(call.arg, padded)]
    /\ UNCHANGED <<file, fileExists, pc, store, query, log, issued, outcome, ldr, bg, snap>>

NextParse == ParseSicCode \/ ParseDate

SpecParse == InitParse /\ [][NextParse]_vars

----------------------------------------------------------------------------
(* Neo4jQuery.run_batched on its own (query.py): any short list of records, *)
(* any small batch size; session.run may raise at any batch                 *)

\* data[i:i + batch_size] with the slice one record short
SliceShort(data, i, batch_size) ==
    SubSeq(data, i + 1, IF i + batch_size - 1 < Len(data)
                        THEN i + batch_size - 1 ELSE Len(data))

\* data[i:i + batch_size] (line 301): the slice stops at the end of the list
Slice(data, i, batch_size) ==
    SubSeq(data, i + 1, IF i + batch_size < Len(data)
                        THEN i + batch_size ELSE Len(data))

\* the locals of run_batched at its first line, with what it has logged and
\* the parameters of the session.run calls made so far
RbStart(data, batch_size) ==
    [fn |-> "run_batched", data |-> data, batch_size |-> batch_size,
     total_batches |-> 0, i |-> 0, at |-> "test", runs |-> <<>>,
     warnings |-> 0, debugs |-> 0]

InitRunBatched ==
    /\ call \in {RbStart(data, size) :
                    data \in UNION {[1..n -> Items] : n \in 0..MaxSeqLen},
                    size \in 1..MaxBatch}
    /\ pc = "run_batched"
    /\ fileExists = TRUE
    /\ file = <<>>
    /\ store = EmptyStore
    /\ query = NoQuery
    /\ log = NoLog
    /\ issued = <<>>
    /\ outcome = "running"
    /\ ldr = NewLoader(<<>>)
    /\ bg = NoBg
    /\ snap = NoSnap

\* lines 289-291: no data, a warning and return
RbNoData ==
    /\ pc = "run_batched" /\ call.at = "test" /\ call.data = <<>>
    /\ call' = [call EXCEPT !.warnings = @ + 1, !.at = "returned"]
    /\ UNCHANGED <<file, fileExists, pc, store, query, log, issued, outcome, ldr, bg, snap>>

\* lines 294-297: the number of batches, and the session is open
RbOpen ==
    /\ pc = "run_batched" /\ call.at = "test" /\ call.data # <<>>
    /\ call' = [call EXCEPT
                   !.total_batches = (Len(call.data) + call.batch_size - 1)
                                         \div call.batch_size,
                   !.at = "loop"]
    /\ UNCHANGED <<file, fileExists, pc, store, query, log, issued, outcome, ldr, bg, snap>>

\* lines 299-309: one pass of the loop: the slice goes to session.run as the
\* parameter 'batch'; the call returns and the pass is logged, or it raises
\* and the exception leaves run_batched
RbBatch ==
    /\ pc = "run_batched" /\ call.at = "loop" /\ call.i < Len(call.data)
    /\ LET batch == Slice(call.data, call.i, call.batch_size)
       IN  \/ call' = [call EXCEPT
                          !.runs = Append(@, [name |-> "batch", value |-> batch]),
                          !.debugs = @ + 1,
                          !.i = @ + call.batch_size]
           \/ call' = [call EXCEPT !.at = "raised"]
    /\ UNCHANGED <<file, fileExists, pc, store, query, log, issued, outcome, ldr, bg, snap>>

\* the range is exhausted: the session closes and run_batched returns
RbReturn ==
    /\ pc = "run_batched" /\ call.at = "loop" /\ call.i >= Len(call.data)
    /\ call' = [call EXCEPT !.at = "returned"]
    /\ UNCHANGED <<file, fileExists, pc, store, query, log, issued, outcome, ldr, bg, snap>>

NextRunBatched == RbNoData \/ RbOpen \/ RbBatch \/ RbReturn

SpecRunBatched == InitRunBatched /\ [][NextRunBatched]_vars

----------------------------------------------------------------------------
(* get_neo4j_info on its own (version.py): the connection, the query and    *)
(* close() may each raise; the query returns any short list of records of   *)
(* the two components it asks for                                           *)

\* the records CALL dbms.components() ... WHERE name IN ['Neo4j Kernel',
\* 'Cypher'] can return (lines 168-173)
ComponentRecords ==
    {[name |-> "Neo4j Kernel", versions |-> vs, edition |-> e] :
        vs \in {<<>>, <<<<>>>>, <<<<"6", ".", "0">>>>},
        e \in {"enterprise", "community"}}
    \cup {[name |-> "Cypher", versions |-> vs, edition |-> ""] :
             vs \in {<<>>, <<5>>, <<5, 25>>}}

\* None in a variable that otherwise holds a list of texts
NoVersions == <<NONE>>

\* the locals of get_neo4j_info at its first line, with whether the
\* Neo4jQuery was made and how often close() was called on it
InfoStart ==
    [fn |-> "get_neo4j_info", at |-> "connect", created |-> FALSE, closed |-> 0,
     result |-> <<>>, k |-> 1, neo4j_version |-> NONE, cypher_version |-> NoVersions,
     enterprise |-> NONE, ret |-> NONE]

InitInfo ==
    /\ call = InfoStart
    /\ pc = "get_neo4j_info"
    /\ fileExists = TRUE
    /\ file = <<>>
    /\ store = EmptyStore
    /\ query = NoQuery
    /\ log = NoLog
    /\ issued = <<>>
    /\ outcome = "running"
    /\ ldr = NewLoader(<<>>)
    /\ bg = NoBg
    /\ snap = NoSnap

\* line 163: query = Neo4jQuery(), or its constructor raises
InfoConnect ==
    /\ pc = "get_neo4j_info" /\ call.at = "connect"
    /\ \/ call' = [call EXCEPT !.created = TRUE, !.at = "run"]
       \/ call' = [call EXCEPT !.at = "except"]
    /\ UNCHANGED <<file, fileExists, pc, store, query, log, issued, outcome, ldr, bg, snap>>

\* lines 168-178: result = query.run(...), or the query raises
InfoRun ==
    /\ pc = "get_neo4j_info" /\ call.at = "run"
    /\ \/ \E rs \in UNION {[1..n -> ComponentRecords] : n \in 0..MaxRecords} :
              call' = [call EXCEPT !.result = rs, !.at = "records"]
       \/ call' = [call EXCEPT !.at = "except"]
    /\ UNCHANGED <<file, fileExists, pc, store, query, log, issued, outcome, ldr, bg, snap>>

\* the validation of lines 198-210 without its test of the two versions
InfoAnswerUnchecked(c) ==
    [connected |-> TRUE, neo4j_version |-> c.neo4j_version,
     cypher_version |-> c.cypher_version, enterprise |-> c.enterprise]

\* lines 198-210: what get_neo4j_info returns once the connection is closed
InfoAnswer(c) ==
    IF ~Truthy(c.neo4j_version) \/ c.cypher_version \in {NoVersions, <<>>}
    THEN [connected |-> FALSE,
          error |-> "Unable to detect Neo4j or Cypher version from database"]
    ELSE [connected |-> TRUE, neo4j_version |-> c.neo4j_version,
          cypher_version |-> c.cypher_version, enterprise |-> c.enterprise]

\* lines 183-192: one pass of the loop over the records; versions[0] of a
\* record without versions raises IndexError
InfoRecord ==
    /\ pc = "get_neo4j_info" /\ call.at = "records" /\ call.k <= Len(call.result)
    /\ LET record == call.result[call.k]
       IN  IF record.name = "Neo4j Kernel"
           THEN IF record.versions = <<>>
                THEN call' = [call EXCEPT !.at = "except"]
                ELSE call' = [call EXCEPT
                                 !.neo4j_version = record.versions[1],
                                 !.enterprise = (record.edition = "enterprise"),
                                 !.k = @ + 1]
           ELSE call' = [call EXCEPT
                            !.cypher_version =
                                [j \in 1..Len(record.versions) |->
                                    NatText(record.versions[j])],
                            !.k = @ + 1]
    /\ UNCHANGED <<file, fileExists, pc, store, query, log, issued, outcome, ldr, bg, snap>>

\* lines 195-210: query.close() and the answer, or close() raises
InfoClose ==
    /\ pc = "get_neo4j_info" /\ call.at = "records" /\ call.k > Len(call.result)
    /\ \/ call' = [call EXCEPT !.closed = @ + 1, !.ret = InfoAnswer(call),
                               !.at = "returned"]
       \/ call' = [call EXCEPT !.closed = @ + 1, !.at = "except"]
    /\ UNCHANGED <<file, fileExists, pc, store, query, log, issued, outcome, ldr, bg, snap>>

\* lines 212-218: except Exception: the failure goes back as a record
InfoExcept ==
    /\ pc = "get_neo4j_info" /\ call.at = "except"
    /\ call' = [call EXCEPT !.ret = [connected |-> FALSE, error |-> "str(e)"],
                            !.at = "returned"]
    /\ UNCHANGED <<file, fileExists, pc, store, query, log, issued, outcome, ldr, bg, snap>>

NextInfo == InfoConnect \/ InfoRun \/ InfoRecord \/ InfoClose \/ InfoExcept

SpecInfo == InitInfo /\ [][NextInfo]_vars

----------------------------------------------------------------------------
(* A batched loader on a longer file, for its progress lines: files of a    *)
(* whole row and a row without a company number                             *)

ProgressRows == {1, 3}

InitProgress ==
    /\ fileExists = TRUE
    /\ file \in Files(ProgressRows, MaxProgressRows)
    /\ pc \in {"company", "address", "sicrel", "prev"}
    /\ snap = [first |-> EmptyStore, initial |-> EmptyStore, run |-> 1,
               loader |-> pc]
    /\ store = EmptyStore
    /\ ldr = EnterPhase(pc, file)
    /\ query = [NoQuery EXCEPT !.state = "open", !.acquired = 1]
    /\ log = NoLog
    /\ issued = <<>>
    /\ outcome = "running"
    /\ bg = NoBg
    /\ call = NoCall

NextProgress ==
    \/ CompanyBatch
    \/ AddressBatch
    \/ HasAddressBatch
    \/ SicRelBatch
    \/ PrevBatch
    \/ LoaderDone

SpecProgress == InitProgress /\ [][NextProgress]_vars

----------------------------------------------------------------------------
(* Properties *)

\* the statements issued so far that satisfy a test
IssuedWhere(Test(_)) == {i \in 1..Len(issued) : Test(issued[i])}

\* the place of a statement in the order of phases the specification gives:
\* schema setup, country extraction, SIC-code extraction, Company load,
\* Address load with HAS_ADDRESS, Address-to-Country linking,
\* Company-to-SICCode linking, PreviousName load, verification
PhaseNo(kind) ==
    CASE kind \in {"constraint", "index"} -> 1
      [] kind = "Country" -> 2
      [] kind = "SICCode" -> 3
      [] kind = "Company" -> 4
      [] kind \in {"Address", "HAS_ADDRESS"} -> 5
      [] kind = "LOCATED_IN" -> 6
      [] kind = "CLASSIFIED_AS" -> 7
      [] kind = "PreviousName" -> 8
      [] kind = "count" -> 9

\* the batches of rows of the file that give a loader something to write
WritingBatches(loader) ==
    LET batches == batch_generator(stream_csv(file), BATCH_SIZE)
    IN  {b \in 1..Len(batches) : BatchData(loader, batches[b]).data # <<>>}

\* how many statements a phase issues when it runs to its end on the file
PhaseSize(q) ==
    CASE q = 1 -> NumConstraints + NumIndexes
      [] q = 2 -> 1
      [] q = 3 -> Len(batch_generator(sic_data(stream_csv(file)), BATCH_SIZE))
      [] q = 4 -> Cardinality(WritingBatches("Company"))
      [] q = 5 -> 2 * Cardinality(WritingBatches("Address"))
      [] q = 6 -> 1
      [] q = 7 -> Cardinality(WritingBatches("CLASSIFIED_AS"))
      [] q = 8 -> Cardinality(WritingBatches("PreviousName"))
      [] q = 9 -> NumCounts

\* C1: the statements of main are issued phase by phase in the order schema,
\* countries, SIC codes, companies, addresses, country links, SIC links,
\* previous names, verification: a statement is never followed by one of an
\* earlier phase, and by the time a phase issues a statement every earlier
\* phase has issued all of its statements and none of them raised (so
\* CLASSIFIED_AS follows all SICCode and Company writes, LOCATED_IN all
\* Country and Address writes).
C1_PhasesInOrder ==
    /\ \A i \in 1..(Len(issued) - 1) :
          PhaseNo(issued[i].kind) <= PhaseNo(issued[i + 1].kind)
    /\ issued # <<>> =>
          \A q \in 1..(PhaseNo(issued[Len(issued)].kind) - 1) :
             /\ Cardinality(IssuedWhere(LAMBDA e : PhaseNo(e.kind) = q)) = PhaseSize(q)
             /\ \A i \in IssuedWhere(LAMBDA e : PhaseNo(e.kind) = q) : ~issued[i].raised

\* a run that went through every phase, with relationship writes in it
C1_Witness ==
    /\ log.complete
    /\ IssuedWhere(LAMBDA e : e.kind = "CLASSIFIED_AS") # {}
    /\ IssuedWhere(LAMBDA e : e.kind = "HAS_ADDRESS") # {}
    /\ Cardinality(IssuedWhere(LAMBDA e : e.kind = "Company")) >= 2

\* C2: the connection is acquired at most once per run; when get_query
\* returned one, close() has been called on it exactly once by the time main
\* ends, on success and on failure alike, and no statement is issued after
\* the close.
C2_ClosedOnceAtTheEnd ==
    /\ query.acquired <= 1
    /\ query.closed <= query.acquired
    /\ (pc = "done" /\ query.acquired = 1) => query.closed = 1
    /\ query.closed >= 1 => query.issuedAtClose = Len(issued)

\* a run that failed in the company load and closed its connection
C2_Witness ==
    /\ pc = "done" /\ outcome = "raised" /\ query.closed = 1
    /\ issued # <<>> /\ issued[Len(issued)].kind = "Company"

\* C3: when a statement of a scan, loader or verification raises, it is the
\* last statement of the run, the load is never logged as complete, and main
\* ends by raising, with the failure logged once.
C3_FailureAbortsTheRun ==
    /\ \A i \in 1..Len(issued) : issued[i].raised =>
          /\ i = Len(issued)
          /\ pc \in {"except", "finally", "done"}
          /\ ~log.complete
    /\ (pc = "done" /\ IssuedWhere(LAMBDA e : e.raised) # {}) =>
          (outcome = "raised" /\ log.error = 1)

\* a run that ended on a failed PreviousName write
C3_Witness ==
    /\ pc = "done" /\ outcome = "raised"
    /\ issued # <<>> /\ issued[Len(issued)].raised
    /\ issued[Len(issued)].kind = "PreviousName"

\* C4: a missing data file is fatal: main ends by raising (or a non-zero
\* exit) with a single error line.
C4_MissingFileIsFatal ==
    (pc = "done" /\ ~fileExists) => (outcome = "raised" /\ log.error = 1)

\* C5: a store that is unreachable during the schema phase aborts the run:
\* no later phase starts.
C5_UnreachableStoreAbortsInSchema ==
    query.lostInSchema =>
        pc \notin {"countries", "sic", "company", "address", "link", "sicrel",
                   "prev", "verify"}

\* the schema statements issued so far
SchemaIssued == SelectSeq(issued, LAMBDA e : e.phase = "schema")

\* the ten schema statements in the order of the two lists
SchemaList ==
    [i \in 1..(NumConstraints + NumIndexes) |->
        IF i <= 5 THEN [phase |-> "schema", kind |-> "constraint", n |-> i,
                        raised |-> FALSE, rejected |-> FALSE]
        ELSE [phase |-> "schema", kind |-> "index", n |-> i - 5,
              raised |-> FALSE, rejected |-> FALSE]]

\* C6: the schema phase attempts the 5 constraints and then the 5 indexes,
\* each once and in order, whatever fails; a failure saying "already exists"
\* in any letter case logs nothing, any other failure logs one warning, and
\* no failure ends the phase.
C6_SchemaFailuresAreNotes ==
    /\ Len(SchemaIssued) <= 10
    /\ \A i \in 1..Len(SchemaIssued) : SchemaIssued[i] = SchemaList[i]
    /\ pc = "schema" =>
          /\ Len(SchemaIssued) = ldr.idx
          /\ log.warning = ldr.fails[3] + ldr.fails[4]
          /\ outcome = "running"
    /\ pc \in {"countries", "sic", "company", "address", "link", "sicrel",
               "prev", "verify"} => Len(SchemaIssued) = 10

\* all ten attempted although an early one failed quietly and another loudly
C6_Witness ==
    /\ pc = "schema" /\ ldr.idx = 10
    /\ ldr.fails[2] = 1 /\ ldr.fails[3] = 1 /\ log.warning = 1

\* C7: create_company_nodes run twice in succession over the same file
\* leaves the Company nodes (count, keys, attributes) the first run left.
C7_CompanyLoadIdempotent ==
    pc = "twice" => store.Company = snap.first.Company

\* two runs over a file with two companies, one of them stale in the store
C7_Witness ==
    /\ pc = "twice"
    /\ Len(store.Company) >= 2
    /\ snap.initial.Company # <<>>
    /\ store.Company # snap.initial.Company

\* the rows of the pool without a company number: whitespace only, empty,
\* missing
KeylessRows == {3, 5, 6}

Keyless(f) == {i \in 1..Len(f) : f[i] \in KeylessRows}

\* the rows the running loader has consumed
Consumed ==
    IF (ldr.next - 1) * BATCH_SIZE < Len(file)
    THEN (ldr.next - 1) * BATCH_SIZE ELSE Len(file)

\* C8: in create_company_nodes each row without a company number (missing,
\* empty or whitespace only) adds one to the skip counter, puts nothing in a
\* write batch, creates no node and raises nothing: the store rejects no
\* company statement, the counters split the rows consumed into keyless and
\* written, no node has an absent or blank key, and a batch of keyless rows
\* issues no statement.
C8_KeylessRowsSkipped ==
    /\ \A i \in 1..Len(issued) :
          issued[i].kind = "Company" => ~issued[i].rejected
    /\ pc = "company" =>
        /\ ldr.skipped = Cardinality({i \in Keyless(file) : i <= Consumed})
        /\ ldr.processed = Consumed - ldr.skipped
        /\ \A i \in 1..Len(store.Company) :
              store.Company[i].companyNumber \in {<<"A">>, <<"B">>, <<"C">>}
        /\ Len(issued) <= snap.run * Cardinality(
              {b \in 1..Len(ldr.batches) :
                  \E i \in 1..Len(ldr.batches[b]) :
                      ldr.batches[b][i].CompanyNumber \notin {<<" ">>, <<>>, NONE}})

\* a loader run that met keyless rows of two kinds and a keyed row
C8_Witness ==
    /\ pc = "company" /\ PastBatches
    /\ ldr.skipped = 2 /\ ldr.processed = 1
    /\ \E i, j \in 1..Len(file) : file[i] = 3 /\ file[j] = 6

RECURSIVE Flatten(_)
Flatten(ss) == IF ss = <<>> THEN <<>> ELSE Head(ss) \o Flatten(Tail(ss))

\* C9: batch_generator over N items with batch size B yields ceil(N/B)
\* batches, all of B items but possibly the last, none empty, whose
\* concatenation is the input.
C9_BatchesPartitionInput ==
    bg.done =>
        LET N == Len(bg.input)
            B == bg.size
        IN  /\ Len(bg.out) = (N + B - 1) \div B
            /\ \A i \in 1..(Len(bg.out) - 1) : Len(bg.out[i]) = B
            /\ \A i \in 1..Len(bg.out) : Len(bg.out[i]) \in 1..B
            /\ Flatten(bg.out) = bg.input

\* five items in batches of three: a full batch and a short last one
C9_Witness ==
    /\ bg.done /\ Len(bg.input) = 5 /\ bg.size = 3
    /\ Len(bg.out) = 2 /\ Len(bg.out[2]) = 2

\* the company number of a row of the pool, trimmed
RowKey(r) ==
    CASE r \in {1, 2, 7, 8} -> <<"A">>
      [] r = 4 -> <<"B">>

\* C10: loading a file into an empty store leaves one Company per distinct
\* non-empty trimmed company number of the file, and never two HAS_ADDRESS
\* relationships between the same Company and Address.
C10_NoDuplicateCompanyOrAddressLink ==
    /\ IssuedWhere(LAMBDA e : PhaseNo(e.kind) > 4) # {} =>
          Len(store.Company) =
              Cardinality({RowKey(file[i]) : i \in 1..Len(file) \ Keyless(file)})
    /\ \A i, j \in 1..Len(store.HAS_ADDRESS) :
          (/\ store.HAS_ADDRESS[i].from = store.HAS_ADDRESS[j].from
           /\ store.HAS_ADDRESS[i].to = store.HAS_ADDRESS[j].to) => i = j

\* a complete load of a file whose rows repeat a company and its address
C10_Witness ==
    /\ log.complete
    /\ Len(file) >= 2
    /\ Len(store.Company) = 1
    /\ Len(store.HAS_ADDRESS) = 1

----------------------------------------------------------------------------
(* The store read by the keys of its nodes *)

CompanyKeys(st) == {st.Company[i].companyNumber : i \in 1..Len(st.Company)}
SicKeys(st) == {st.SICCode[i].code : i \in 1..Len(st.SICCode)}
CountryNames(st) == {st.Country[i].name : i \in 1..Len(st.Country)}
PrevKeys(st) == {PrevKey(st.PreviousName[i]) : i \in 1..Len(st.PreviousName)}

HasAddressView(st) ==
    {<<st.Company[st.HAS_ADDRESS[i].from].companyNumber,
       AddressKey(st.Address[st.HAS_ADDRESS[i].to])>> :
        i \in 1..Len(st.HAS_ADDRESS)}

LocatedInView(st) ==
    {<<AddressKey(st.Address[st.LOCATED_IN[i].from]),
       st.Country[st.LOCATED_IN[i].to].name>> : i \in 1..Len(st.LOCATED_IN)}

ClassifiedAsView(st) ==
    {<<st.Company[st.CLASSIFIED_AS[i].from].companyNumber,
       st.SICCode[st.CLASSIFIED_AS[i].to].code,
       st.CLASSIFIED_AS[i].props[1]>> : i \in 1..Len(st.CLASSIFIED_AS)}

PreviouslyNamedView(st) ==
    {<<st.Company[st.PREVIOUSLY_NAMED[i].from].companyNumber,
       PrevKey(st.PreviousName[st.PREVIOUSLY_NAMED[i].to]),
       st.PREVIOUSLY_NAMED[i].props>> : i \in 1..Len(st.PREVIOUSLY_NAMED)}

\* the entries a loader makes of the whole file
Entries(loader) ==
    LET data == BatchData(loader, stream_csv(file)).data
    IN  {data[i] : i \in 1..Len(data)}

\* the node lists of two stores are the same
SameNodes(a, b) ==
    /\ a.Company = b.Company /\ a.Address = b.Address /\ a.Country = b.Country
    /\ a.SICCode = b.SICCode /\ a.PreviousName = b.PreviousName

NodeSet(nodes) == {nodes[i] : i \in 1..Len(nodes)}

\* a store without the order its nodes and relationships were made in
Graph(st) ==
    [Company |-> NodeSet(st.Company), Address |-> NodeSet(st.Address),
     Country |-> NodeSet(st.Country), SICCode |-> NodeSet(st.SICCode),
     PreviousName |-> NodeSet(st.PreviousName),
     HAS_ADDRESS |-> HasAddressView(st), LOCATED_IN |-> LocatedInView(st),
     CLASSIFIED_AS |-> ClassifiedAsView(st),
     PREVIOUSLY_NAMED |-> PreviouslyNamedView(st),
     sizes |-> <<Len(st.Company), Len(st.Address), Len(st.Country),
                 Len(st.SICCode), Len(st.PreviousName), Len(st.HAS_ADDRESS),
                 Len(st.LOCATED_IN), Len(st.CLASSIFIED_AS),
                 Len(st.PREVIOUSLY_NAMED)>>]

\* C12: when a run of main ended anywhere (a statement failed, or the run
\* completed) and main is run again over the same file to completion, the
\* store holds the nodes, relationships and attributes that one run without
\* a failure leaves from the store the first run started from.
C12_RerunAfterFailureEqualsOneRun ==
    (snap.run = 2 /\ log.complete) =>
        Graph(store) = Graph(LoadAll(file, snap.initial))

\* the first run wrote Address nodes and failed before their HAS_ADDRESS
\* relationships; the second run completed
C12_Witness ==
    /\ snap.run = 2 /\ log.complete
    /\ snap.first.Address # snap.initial.Address
    /\ snap.first.HAS_ADDRESS = <<>>
    /\ Len(store.HAS_ADDRESS) >= 1
    /\ Len(store.Country) >= 2

\* C13: each loader issues one write per batch, so wherever a run fails each
\* batch is applied whole or not at all: when a run has failed, every
\* Address node written has the HAS_ADDRESS relationship of its batch.
C13_BatchesAreAtomic ==
    pc \in {"except", "finally", "done"} =>
          \A a \in 1..Len(store.Address) :
              \E i \in 1..Len(store.HAS_ADDRESS) : store.HAS_ADDRESS[i].to = a

\* C14: the Country, SICCode, Address/HAS_ADDRESS, LOCATED_IN, CLASSIFIED_AS
\* and PreviousName/PREVIOUSLY_NAMED loaders are idempotent: when one has
\* been run twice over the same file, the store is as the first run left
\* it, node for node and relationship for relationship, ranks and sequences
\* included.
C14_LoadersAreIdempotent ==
    (/\ pc = "returned" /\ snap.run = 2
     /\ snap.loader \in {"countries", "sic", "address", "link", "sicrel", "prev"})
        => store = snap.first

\* the classification loader run twice where its first run added two
\* relationships of different rank
C14_Witness ==
    /\ pc = "returned" /\ snap.run = 2 /\ snap.loader = "sicrel"
    /\ Len(store.CLASSIFIED_AS) >= Len(snap.initial.CLASSIFIED_AS) + 2
    /\ \E i, j \in 1..Len(store.CLASSIFIED_AS) :
          store.CLASSIFIED_AS[i].props # store.CLASSIFIED_AS[j].props

\* what the rows of the pool that have a company number say of the company
ExpectedCompany(r) ==
    CASE r = 1 -> [companyNumber |-> <<"A">>, name |-> <<"x">>,
                   countryOfOrigin |-> <<"F","r">>,
                   incorporationDate |-> <<"date", 2020, 12, 31>>,
                   numMortCharges |-> <<"int", 3>>]
      [] r = 2 -> [companyNumber |-> <<"A">>, name |-> <<"y">>,
                   countryOfOrigin |-> NONE, incorporationDate |-> NONE,
                   numMortCharges |-> <<"int", 0>>]
      [] r = 4 -> [companyNumber |-> <<"B">>, name |-> NONE,
                   countryOfOrigin |-> <<"F","r">>, incorporationDate |-> NONE,
                   numMortCharges |-> NONE]

\* what the rows of the pool that have a company number and a whole address
\* key say of the address
ExpectedAddress(r) ==
    CASE r = 1 -> [addressLine1 |-> <<"1">>, postTown |-> <<"T">>,
                   postCode |-> <<"P">>, addressLine2 |-> <<"f">>,
                   country |-> <<"F","r">>]
      [] r = 2 -> [addressLine1 |-> <<"1">>, postTown |-> <<"T">>,
                   postCode |-> <<"P">>, addressLine2 |-> NONE,
                   country |-> NONE]

\* the places in the file of the rows that carry a company key / an
\* address key
RowsOfCompany(k) ==
    {i \in 1..Len(file) : file[i] \in {1, 2, 4} /\ ExpectedCompany(file[i]).companyNumber = k}

RowsOfAddress(k) ==
    {i \in 1..Len(file) : file[i] \in {1, 2} /\ AddressKey(ExpectedAddress(file[i])) = k}

Last(is) == CHOOSE i \in is : \A j \in is : j <= i

\* is a field of the file blank: missing, empty or whitespace only
Blank(field) == clean_string(field) = NONE

\* the attributes of the nodes are those of the last row with their key
LastRowWins ==
    /\ (pc = "returned" /\ snap.loader = "company") =>
          \A i \in 1..Len(store.Company) :
              LET n == store.Company[i]
                  is == RowsOfCompany(n.companyNumber)
              IN  IF is = {} THEN n \in NodeSet(snap.initial.Company)
                  ELSE n = ExpectedCompany(file[Last(is)])
    /\ (pc = "returned" /\ snap.loader = "address") =>
          \A i \in 1..Len(store.Address) :
              LET n == store.Address[i]
                  is == RowsOfAddress(AddressKey(n))
              IN  IF is = {} THEN n \in NodeSet(snap.initial.Address)
                  ELSE n = ExpectedAddress(file[Last(is)])

SicSlots ==
    {[r |-> 1, k |-> 1, code |-> <<"1","2">>, description |-> <<"a","b">>],
     [r |-> 2, k |-> 1, code |-> <<"1","2">>, description |-> NONE],
     [r |-> 2, k |-> 3, code |-> <<"7">>, description |-> <<"c">>],
     [r |-> 3, k |-> 4, code |-> <<"9">>, description |-> NONE],
     [r |-> 4, k |-> 1, code |-> <<"7">>, description |-> NONE],
     [r |-> 4, k |-> 2, code |-> <<"7">>, description |-> <<"d">>]}

\* the occurrences of codes in the file: row place, slot, code, description
SicOccurrences ==
    {[i |-> p[1], k |-> p[2].k, code |-> p[2].code,
      description |-> p[2].description] :
        p \in {q \in (1..Len(file)) \X SicSlots : q[2].r = file[q[1]]}}

\* the first occurrence of a code, by row and then by slot
FirstOccurrence(code) ==
    CHOOSE o \in SicOccurrences :
        /\ o.code = code
        /\ \A x \in SicOccurrences : x.code = code =>
              (o.i < x.i \/ (o.i = x.i /\ o.k <= x.k))

\* C16: extract_and_create_sic_codes writes one SICCode node for each code
\* that parse_sic_code yields from any slot of any row, and no other; the
\* description of each is the one of the code's first occurrence by row and
\* then by slot, also where that occurrence has none and a later one has.
C16_FirstDescriptionKept ==
    (pc = "returned" /\ snap.loader = "sic") =>
        /\ SicKeys(store) =
              SicKeys(snap.initial) \cup {o.code : o \in SicOccurrences}
        /\ Len(store.SICCode) = Cardinality(SicKeys(store))
        /\ \A i \in 1..Len(store.SICCode) :
              LET n == store.SICCode[i]
              IN  IF n.code \in {o.code : o \in SicOccurrences}
                  THEN n.description = FirstOccurrence(n.code).description
                  ELSE n \in NodeSet(snap.initial.SICCode)

\* code 7 first met without a description in slot 1 of a row whose slot 2
\* describes it, and code 12 first met undescribed in a row before the row
\* that describes it
C16_Witness ==
    /\ pc = "returned" /\ snap.loader = "sic"
    /\ file = <<4, 2, 1>>
    /\ snap.initial = EmptyStore
    /\ \A i \in 1..Len(store.SICCode) : store.SICCode[i].description = NONE
    /\ SicKeys(store) = {<<"1","2">>, <<"7">>}

\* the trimmed, non-empty country names in the two country columns of the
\* rows of the pool
RowCountries(r) ==
    CASE r = 1 -> {<<"F","r">>}
      [] r = 3 -> {<<"u","k">>, <<"A","r">>}
      [] r = 4 -> {<<"F","r">>, <<"u","k">>}
      [] OTHER -> {}

\* C17: extract_and_create_country_nodes on an empty store leaves one
\* Country node for each distinct non-empty trimmed value of CountryOfOrigin
\* or RegAddress.Country of any row, rows without a company number included,
\* and no other; each has the code get_country_code gives for its name.
C17_CountriesOfEveryRow ==
    (pc = "returned" /\ snap.loader = "countries" /\ snap.initial = EmptyStore) =>
        /\ CountryNames(store) = UNION {RowCountries(file[i]) : i \in 1..Len(file)}
        /\ Len(store.Country) = Cardinality(CountryNames(store))
        /\ \A i \in 1..Len(store.Country) :
              /\ store.Country[i].code = get_country_code(store.Country[i].name)
              /\ store.Country[i].code \in {<<"F","R">>, <<"G","B">>, <<"A","R">>}

\* three countries, two of them named only by a row without a company
\* number, one named by two rows with different padding
C17_Witness ==
    /\ pc = "returned" /\ snap.loader = "countries" /\ snap.initial = EmptyStore
    /\ file = <<1, 3, 4>>
    /\ Len(store.Country) = 3
    /\ store.Country[1].name = <<"A","r">>

\* the PreviousName nodes a company owns
OwnedNames(st, c) ==
    {st.PREVIOUSLY_NAMED[i].to :
        i \in {j \in 1..Len(st.PREVIOUSLY_NAMED) : st.PREVIOUSLY_NAMED[j].from = c}}

\* C18: after a load of any file, files where rows share a company number
\* among them, every Company owns at most 10 PreviousName nodes and every
\* sequence is in 1..10.
C18_AtMostTenPreviousNames ==
    (pc = "returned" /\ snap.loader = "prev") =>
        /\ \A c \in 1..Len(store.Company) :
              Cardinality(OwnedNames(store, c)) <= NumPrevSlots
        /\ \A i \in 1..Len(store.PreviousName) :
              store.PreviousName[i].sequence \in 1..NumPrevSlots

\* C19: the change date of a previous name is optional: the store rejects no
\* previous-name batch, and when the loader has returned every populated
\* slot of a row with a company number has its PreviousName node, with or
\* without a date.
C19_ChangeDateIsOptional ==
    /\ \A i \in 1..Len(issued) :
          issued[i].kind = "PreviousName" => ~issued[i].rejected
    /\ pc = "verify" =>
          \A e \in Entries("PreviousName") :
              <<e.companyNumber, e.previousName, e.sequence>> \in PrevKeys(store)

\* C20: after create_company_sic_relationships, every SIC slot k of a row
\* with a company number whose text parses to a code has, when the Company
\* and the SICCode are in the store, a CLASSIFIED_AS relationship between
\* them of rank k, the slot's own number; every rank is in 1..4, and no two
\* relationships share Company, SICCode and rank.
C20_RankIsTheSlot ==
    (pc = "returned" /\ snap.loader = "sicrel") =>
        /\ \A o \in SicOccurrences :
              (/\ file[o.i] \notin KeylessRows
               /\ RowKey(file[o.i]) \in CompanyKeys(store)
               /\ o.code \in SicKeys(store))
                  => <<RowKey(file[o.i]), o.code, o.k>> \in ClassifiedAsView(store)
        /\ \A i \in 1..Len(store.CLASSIFIED_AS) :
              store.CLASSIFIED_AS[i].props[1] \in 1..NumSicSlots
        /\ \A i, j \in 1..Len(store.CLASSIFIED_AS) :
              store.CLASSIFIED_AS[i] = store.CLASSIFIED_AS[j] => i = j

\* company A classified by slots 1 and 3 of a row, company B by one code in
\* slots 1 and 2
C20_Witness ==
    /\ pc = "returned" /\ snap.loader = "sicrel"
    /\ snap.initial = FullStore
    /\ {<<<<"A">>, <<"7">>, 3>>, <<<<"B">>, <<"7">>, 1>>, <<<<"B">>, <<"7">>, 2>>}
          \subseteq ClassifiedAsView(store)
    /\ Len(store.CLASSIFIED_AS) = 4

----------------------------------------------------------------------------
(* Row admissibility *)

\* a key field that is there: not null, not empty, nothing to trim
Present(v) == v # NONE /\ v # <<>> /\ Strip(v) = v

\* C21: every node a run of main writes into an empty store has all of its
\* key fields present after trimming; no statement is rejected for a row that
\* lacks a key (the only statement the store rejects is a PreviousName one,
\* for a change date, which is no key); and once the Address load is over a
\* row with a company number and an incomplete address has its Company, no
\* Address and no HAS_ADDRESS, every Address being that of a row with a
\* company number and a whole address.
C21_KeyFieldsPresent ==
    /\ \A i \in 1..Len(store.Company) : Present(store.Company[i].companyNumber)
    /\ \A i \in 1..Len(store.Address) :
          /\ Present(store.Address[i].addressLine1)
          /\ Present(store.Address[i].postTown)
          /\ Present(store.Address[i].postCode)
    /\ \A i \in 1..Len(store.Country) : Present(store.Country[i].name)
    /\ \A i \in 1..Len(store.SICCode) : Present(store.SICCode[i].code)
    /\ \A i \in 1..Len(store.PreviousName) :
          /\ Present(store.PreviousName[i].companyNumber)
          /\ Present(store.PreviousName[i].name)
          /\ store.PreviousName[i].sequence \in 1..NumPrevSlots
    /\ \A i \in 1..Len(issued) :
          issued[i].rejected => issued[i].kind = "PreviousName"
    /\ \A i \in 1..Len(store.Address) :
          RowsOfAddress(AddressKey(store.Address[i])) # {}
    /\ IssuedWhere(LAMBDA e : PhaseNo(e.kind) > 5) # {} =>
          \A i \in 1..Len(file) : file[i] = 4 =>
              /\ <<"B">> \in CompanyKeys(store)
              /\ \A h \in HasAddressView(store) : h[1] # <<"B">>

\* a file of a row with an incomplete address, a row without a company
\* number and a whole row, loaded past the Address load: two companies, one
\* address
C21_Witness ==
    /\ IssuedWhere(LAMBDA e : e.kind = "CLASSIFIED_AS") # {}
    /\ \E i, j, k \in 1..Len(file) : file[i] = 4 /\ file[j] = 3 /\ file[k] = 1
    /\ CompanyKeys(store) = {<<"A">>, <<"B">>}
    /\ Len(store.Address) = 1
    /\ Len(store.HAS_ADDRESS) = 1

----------------------------------------------------------------------------
(* The field parsers *)

\* what is left of a text after its leading blanks
SkipBlanks(t) == SubSeq(t, SpanLen(t, Whitespace) + 1, Len(t))

\* the pair the specification gives for a classification text: digits, blanks
\* if any, a hyphen, blanks if any and a description give both; digits alone
\* give the code; anything else, a sentinel included, gives neither
ClaimedSic(text) ==
    IF text = NONE THEN <<NONE, NONE>>
    ELSE LET t == Strip(text)
             nd == SpanLen(t, Digits)
             rest == SkipBlanks(SubSeq(t, nd + 1, Len(t)))
             hyphen == rest # <<>> /\ Head(rest) = "-"
             description == IF hyphen THEN SkipBlanks(Tail(rest)) ELSE <<>>
         IN  IF Lower(t) \in {<<"n","o","n","e"," ","s","u","p","p","l","i","e","d">>,
                              <<"n","o","n","e">>}
             THEN <<NONE, NONE>>
             ELSE IF nd >= 1 /\ hyphen /\ description # <<>>
             THEN <<SubSeq(t, 1, nd), description>>
             ELSE IF nd >= 1 /\ nd = Len(t) THEN <<t, NONE>>
             ELSE <<NONE, NONE>>

\* C22: parse_sic_code returns, for every text, (digits, description) when
\* the trimmed text is digits, optional blanks, a hyphen, optional blanks and
\* a non-empty description, (digits, absent) when it is digits only, and
\* (absent, absent) otherwise, the empty text and the sentinels in any letter
\* case included; it never returns a description without a code.
C22_SicCodeParsed ==
    (pc = "parsing" /\ call.fn = "parse_sic_code" /\ call.done) =>
        /\ call.result = ClaimedSic(call.arg)
        /\ call.result[2] # NONE => call.result[1] # NONE

\* the year-month-day text the specification gives for a date text: the
\* trimmed text is day/month/year, a date of the calendar, and the result is
\* the year in four digits, the month and the day in two; absent otherwise
ClaimedDate(text) ==
    IF text = NONE THEN NONE
    ELSE LET t == Strip(text)
             i1 == IndexOf(t, "/")
             r1 == SubSeq(t, i1 + 1, Len(t))
             i2 == IndexOf(r1, "/")
             day == SubSeq(t, 1, i1 - 1)
             month == SubSeq(r1, 1, i2 - 1)
             year == SubSeq(r1, i2 + 1, Len(r1))
             written == /\ i1 > 0 /\ i2 > 0
                        /\ IsDigitStr(day) /\ Len(day) \in 1..2
                        /\ IsDigitStr(month) /\ Len(month) \in 1..2
                        /\ IsDigitStr(year) /\ Len(year) = 4
         IN  IF written /\ ToNat(year) >= 1 /\ ToNat(month) \in 1..12
                /\ ToNat(day) \in 1..DaysInMonth(ToNat(year), ToNat(month))
             THEN year \o <<"-">> \o Pad(ToNat(month), 2) \o <<"-">>
                  \o Pad(ToNat(day), 2)
             ELSE NONE

\* C23: parse_date returns, for every text, the year-month-day text of the
\* date when the trimmed text is a valid calendar date written
\* day/month/year, and absent otherwise.
C23_DateParsed ==
    (pc = "parsing" /\ call.fn = "parse_date" /\ call.done) =>
        call.result = ClaimedDate(call.arg)

----------------------------------------------------------------------------
(* run_batched *)

\* the least whole number not below n / b
CeilDiv(n, b) == IF n % b = 0 THEN n \div b ELSE n \div b + 1

\* C24: for a non-empty list of N records and a batch size B > 0 a
\* run_batched that returns has executed the statement ceil(N/B) times, each
\* time with one parameter named 'batch' holding a slice of at most B records;
\* the slices are consecutive, in input order, and joined they are the input
\* (so are, at any moment, the slices passed so far a beginning of it); for
\* no data it executes nothing and returns.
C24_RunBatchedSlices ==
    pc = "run_batched" =>
        /\ \A k \in 1..Len(call.runs) :
              /\ call.runs[k].name = "batch"
              /\ Len(call.runs[k].value) \in 1..call.batch_size
        /\ Flatten([k \in 1..Len(call.runs) |-> call.runs[k].value])
              = SubSeq(call.data, 1, IF call.i < Len(call.data) THEN call.i
                                     ELSE Len(call.data))
        /\ \A k \in 1..(Len(call.runs) - 1) :
              Len(call.runs[k].value) = call.batch_size
        /\ call.at = "returned" =>
              /\ Len(call.runs) = CeilDiv(Len(call.data), call.batch_size)
              /\ Flatten([k \in 1..Len(call.runs) |-> call.runs[k].value]) = call.data
        /\ call.data = <<>> => call.runs = <<>> /\ call.at \in {"test", "returned"}

\* five records in batches of two: three executions, the last of one record
C24_Witness ==
    /\ pc = "run_batched" /\ call.at = "returned"
    /\ Len(call.data) = 5 /\ call.batch_size = 2
    /\ Len(call.runs) = 3 /\ Len(call.runs[3].value) = 1

----------------------------------------------------------------------------
(* get_neo4j_info *)

\* C25: get_neo4j_info always comes back with a record: connected = true
\* with a non-empty Neo4j version, a non-empty list of Cypher versions and
\* the edition flag, or connected = false with an error text; connected =
\* true comes back only when the query result held a kernel record with a
\* version and a Cypher record with versions.
C25_InfoNeverRaises ==
    pc = "get_neo4j_info" =>
        /\ call.at \in {"connect", "run", "records", "except", "returned"}
        /\ call.at = "returned" =>
              IF call.ret.connected
              THEN /\ call.ret.neo4j_version \notin {NONE, <<>>}
                   /\ call.ret.cypher_version \notin {NoVersions, <<>>}
                   /\ call.ret.enterprise \in BOOLEAN
                   /\ \E i, j \in 1..Len(call.result) :
                         /\ call.result[i].name = "Neo4j Kernel"
                         /\ call.result[i].versions # <<>>
                         /\ call.result[i].versions[1] = call.ret.neo4j_version
                         /\ call.result[j].name = "Cypher"
                         /\ call.result[j].versions # <<>>
              ELSE DOMAIN call.ret = {"connected", "error"}

\* a call whose query returned the kernel record of an enterprise edition
\* and a Cypher record of two versions
C25_Witness ==
    /\ pc = "get_neo4j_info" /\ call.at = "returned"
    /\ call.ret.connected
    /\ call.ret.cypher_version = <<<<"5">>, <<"2", "5">>>>
    /\ call.ret.enterprise

\* C26: when get_neo4j_info returns, close() has been called on the
\* Neo4jQuery it made, on every path, that of a version query that raises
\* included.
C26_InfoClosesConnection ==
    (pc = "get_neo4j_info" /\ call.at = "returned" /\ call.created) =>
        call.closed >= 1

----------------------------------------------------------------------------
(* Progress lines *)

\* the multiples of LOG_INTERVAL from the first up to n
Multiples(n) == {m \in 1..n : m % LOG_INTERVAL = 0}

\* the counts of rows seen at which the loader of phase p wrote a progress
\* line
ProgressAt(p) ==
    {log.progress[i].seen : i \in {j \in 1..Len(log.progress) :
                                      log.progress[j].loader = p}}

\* C27: with LOG_INTERVAL a whole number of batches (50000 = 25 * 2000) each
\* of the loaders of Company, Address, SIC relationships and PreviousName has
\* written a progress line at every multiple of LOG_INTERVAL among the rows
\* it has seen so far (processed plus skipped), so at every multiple up to
\* the number of rows of the file once it returns, and it returns with one
\* summary line, written after its last batch.
C27_ProgressAtEveryInterval ==
    /\ pc \in {"company", "address", "sicrel", "prev"} =>
          /\ Seen(ldr) = Consumed
          /\ Multiples(Seen(ldr)) \subseteq ProgressAt(pc)
          /\ log.summary = <<>>
    /\ pc = "returned" =>
          /\ Multiples(Len(file)) \subseteq ProgressAt(snap.loader)
          /\ log.summary = <<snap.loader>>
          /\ Seen(ldr) = Len(file)

\* a loader that returned from a file of seven rows, some skipped: progress
\* lines at four rows and at the end, and the summary
C27_Witness ==
    /\ pc = "returned" /\ Len(file) = 7
    /\ ldr.skipped + ldr.skipped_company >= 2
    /\ ProgressAt(snap.loader) = {4, 7}
    /\ log.summary = <<snap.loader>>

----------------------------------------------------------------------------
(* The counters of the Address loader *)

\* the places, among the first n rows of the file, of the rows without a
\* company number, and of those with one and an incomplete address
NoCompanyRows(n) == {i \in 1..n : Blank(RowPool[file[i]].CompanyNumber)}

NoAddressRows(n) ==
    {i \in 1..n \ NoCompanyRows(n) :
        \/ Blank(RowPool[file[i]].AddressLine1)
        \/ Blank(RowPool[file[i]].PostTown)
        \/ Blank(RowPool[file[i]].PostCode)}

\* C28: in create_address_nodes_and_relationships every row adds one to
\* exactly one of processed, skipped_address and skipped_company: after
\* every batch the three add up to the rows consumed, at the end to the rows
\* of the file; skipped_company counts the rows without a company number,
\* those without an address too, and skipped_address only rows that have a
\* company number.
C28_AddressCountersPartitionRows ==
    LET n == IF pc = "returned" THEN Len(file) ELSE Consumed
    IN  ((pc = "address" \/ pc = "returned") /\ snap.loader = "address") =>
            /\ ldr.skipped_company = Cardinality(NoCompanyRows(n))
            /\ ldr.skipped_address = Cardinality(NoAddressRows(n))
            /\ ldr.processed + ldr.skipped_address + ldr.skipped_company = n
            /\ ldr.skipped = 0

\* the loader at its end on a file of a whole row, a row with neither
\* company number nor address, and a row with an incomplete address
C28_Witness ==
    /\ pc = "returned" /\ snap.loader = "address"
    /\ \E i \in 1..Len(file) : file[i] = 6
    /\ ldr.processed = 1 /\ ldr.skipped_address = 1 /\ ldr.skipped_company = 1

----------------------------------------------------------------------------
(* PreviousName nodes and their companies *)

\* C29: while and after the PreviousName loader runs on a store that had no
\* PreviousName node, every PreviousName node has a PREVIOUSLY_NAMED
\* relationship coming from a Company of the node's companyNumber and
\* carrying the node's sequence: no PreviousName node is made for a Company
\* that is not there.
C29_PreviousNameHasItsCompany ==
    (snap.loader = "prev" /\ snap.initial.PreviousName = <<>>) =>
        \A i \in 1..Len(store.PreviousName) :
            \E r \in 1..Len(store.PREVIOUSLY_NAMED) :
                /\ store.PREVIOUSLY_NAMED[r].to = i
                /\ store.Company[store.PREVIOUSLY_NAMED[r].from].companyNumber
                      = store.PreviousName[i].companyNumber
                /\ store.PREVIOUSLY_NAMED[r].props[2] = store.PreviousName[i].sequence

\* the loader has returned twice on a file that gives a company of the store
\* more than ten previous names, each with its relationship
C29_Witness ==
    /\ pc = "returned" /\ snap.loader = "prev" /\ snap.run = 2
    /\ snap.initial = PartStore
    /\ Len(store.PreviousName) >= NumPrevSlots + 1
    /\ Len(store.PREVIOUSLY_NAMED) = Len(store.PreviousName)

----------------------------------------------------------------------------
(* Addresses and their countries *)

\* the LOCATED_IN relationships that leave the Address at place i
LocatedInOf(i) == {r \in 1..Len(store.LOCATED_IN) : store.LOCATED_IN[r].from = i}

\* C30: once a run of main from an empty store has linked the addresses (and
\* so when it is complete), every Address with a country has exactly one
\* LOCATED_IN relationship, to the Country whose name is that country, and
\* every Address without a country has none.
C30_AddressLocatedInItsCountry ==
    IssuedWhere(LAMBDA e : e.kind = "LOCATED_IN" /\ ~e.raised) # {} =>
        \A i \in 1..Len(store.Address) :
            IF store.Address[i].country \in {NONE, <<>>}
            THEN LocatedInOf(i) = {}
            ELSE /\ Cardinality(LocatedInOf(i)) = 1
                 /\ \A r \in LocatedInOf(i) :
                       store.Country[store.LOCATED_IN[r].to].name
                           = store.Address[i].country

\* a complete run on a file whose rows name two countries and one address,
\* which is in one of them
C30_Witness ==
    /\ log.complete
    /\ Len(store.Country) >= 2
    /\ Len(store.Address) = 1
    /\ LocatedInView(store) = {<<<<<<"1">>, <<"T">>, <<"P">>>>, <<"F", "r">>>>}

====
